---- MODULE Spec2Model ----
(***************************************************************************)
(* ClipForge: the video processing pipeline.                               *)
(*                                                                         *)
(* One run is process_video(video_id, video_processor): the lifecycle      *)
(* (ProcessingContext.__aenter__/__aexit__), the pipeline executor         *)
(* (video_processor) and its three components (apply_operations,           *)
(* remove_silence, auto_crop_face), acting on two shared resources: the    *)
(* files on disk and the metadata record uploads/<video_id>.json.          *)
(*                                                                         *)
(* Every metadata update of the code is get_metadata (read), open(.., "w") *)
(* (truncate) and json.dump (write): three steps of the model, so that     *)
(* what lies between them can be observed.  The code between two metadata  *)
(* updates of a run is one step of the model.                              *)
(*                                                                         *)
(* Python floats of the progress arithmetic are modelled as exact          *)
(* rationals [n, d] in lowest terms.                                       *)
(*                                                                         *)
(* Specifications: Spec (one run and the readers of its record), LiveSpec  *)
(* (one run, fair), OverlapSpec (two runs of one video), UnvalidatedSpec   *)
(* (edit operations of an unknown kind), SilenceSpec (the computations of  *)
(* remove_silence on their own), SpeedSpec (_change_speed on a factor),    *)
(* CropSpec (auto_crop_face on what cv2 and the detector report),          *)
(* UploadSpec (the validation of the edit operations an upload stores),    *)
(* PathsSpec (the file names of the runs of two uploads), StreamSpec (one  *)
(* run and a client on its status event stream), ServeSpec (one run and a  *)
(* client asking for the video, directly and through a share link).        *)
(***************************************************************************)
EXTENDS Integers, Sequences, FiniteSets, TLC

\* Longest edit-operation list an upload stores.
MaxOps == 2

\* The runs of the one video of the model (process_video tasks).
Runs == {1, 2}

---------------------------------------------------------------------------
(* Rationals *)

RECURSIVE GCD(_, _)
GCD(a, b) == IF b = 0 THEN a ELSE GCD(b, a % b)

Frac(n, d) == LET g == GCD(n, d) IN [n |-> n \div g, d |-> d \div g]

Whole(k) == Frac(k, 1)

RAdd(x, y) == Frac(x.n * y.d + y.n * x.d, x.d * y.d)

RMul(x, y) == Frac(x.n * y.n, x.d * y.d)

RDiv(x, y) == Frac(x.n * y.d, x.d * y.n)

RLeq(x, y) == x.n * y.d <= y.n * x.d

RMin(x, y) == IF RLeq(x, y) THEN x ELSE y

RMax(x, y) == IF RLeq(x, y) THEN y ELSE x

---------------------------------------------------------------------------
(* Paths and file contents *)

\* context.input_path: uploads/<video_id>.<ext>
InputPath == <<"upload", 0>>

\* context.output_path: processed/processed_<video_id>.<ext>
OutputPath == <<"processed", 0>>

\* uploads/_pipeline_<i>_<video_id>.<ext>
PipelinePath(i) == <<"_pipeline_", i>>

\* Mutant: the operations' temporary output placed on the source itself.
NlTempPathInPlace(i) == InputPath

\* <input dir>/_nltemp_<i>_<input stem>.<ext>
NlTempPath(i) == <<"_nltemp_", i>>

\* The bytes of the uploaded file; a transform appends its tag.
Original == <<>>

\* What a failed codec invocation may leave at its output path.
Partial == <<"partial">>

Exists(fs, p) == p \in DOMAIN fs

WriteFile(fs, p, c) == (p :> c) @@ fs

Unlink(fs, p) == [q \in DOMAIN fs \ {p} |-> fs[q]]

\* shutil.copy2(src, dst), src existing
Copy2(fs, src, dst) == WriteFile(fs, dst, fs[src])

RECURSIVE UnlinkAll(_, _)
UnlinkAll(fs, tfs) ==
    IF tfs = <<>> THEN fs
    ELSE UnlinkAll(IF Exists(fs, Head(tfs)) THEN Unlink(fs, Head(tfs)) ELSE fs,
                   Tail(tfs))

---------------------------------------------------------------------------
(* The metadata record *)

VALID_OPERATION_TYPES == {"trim_start", "trim_end", "speed", "fade_out"}

\* The content of the metadata file between open(.., "w") and json.dump.
Torn == [torn |-> TRUE]

Readable(m) == "status" \in DOMAIN m

\* save_upload_metadata: the record an upload stores
UploadRecord(processing_options) ==
    [status |-> "uploaded",
     processed |-> FALSE,
     progress |-> Whole(0),
     processing_details |->
        [current_step |-> "", total_steps |-> 0,
         current_step_progress |-> Whole(0)],
     processing_completed |-> "None",
     processing_options |-> processing_options]

\* Mutant: the status update that leaves the processed flag as it was.
WithStatusKeepsProcessed(metadata, status, processed) ==
    [metadata EXCEPT !.status = status]

\* Mutant: the status update that also resets the progress.
WithStatusResetsProgress(metadata, status, processed) ==
    [metadata EXCEPT !.status = status,
                     !.processed = processed,
                     !.progress = Whole(0),
                     !.processing_completed =
                        IF processed THEN "timestamp" ELSE "None"]

\* update_metadata_processing_status: the fields it sets
WithStatus(metadata, status, processed) ==
    [metadata EXCEPT !.status = status,
                     !.processed = processed,
                     !.processing_completed =
                        IF processed THEN "timestamp" ELSE "None"]

\* Mutant: the progress update that also marks the record as processing.
WithProgressMarksProcessing(metadata, progress, current_step, total_steps, current_step_progress) ==
    [metadata EXCEPT
        !.status = "processing",
        !.progress = RMin(Whole(100), RMax(Whole(0), progress)),
        !.processing_details =
            [current_step |-> current_step,
             total_steps |-> total_steps,
             current_step_progress |->
                RMin(Whole(100), RMax(Whole(0), current_step_progress))]]

\* Mutant: the progress update that stores a record without its options.
WithProgressClearsOptions(metadata, progress, current_step, total_steps, current_step_progress) ==
    [metadata EXCEPT
        !.progress = RMin(Whole(100), RMax(Whole(0), progress)),
        !.processing_details =
            [current_step |-> current_step,
             total_steps |-> total_steps,
             current_step_progress |->
                RMin(Whole(100), RMax(Whole(0), current_step_progress))],
        !.processing_options =
            [edit_operations |-> <<>>, remove_silence |-> FALSE,
             auto_crop_face |-> FALSE]]

\* update_processing_progress: the fields it sets
WithProgress(metadata, progress, current_step, total_steps, current_step_progress) ==
    [metadata EXCEPT
        !.progress = RMin(Whole(100), RMax(Whole(0), progress)),
        !.processing_details =
            [current_step |-> current_step,
             total_steps |-> total_steps,
             current_step_progress |->
                RMin(Whole(100), RMax(Whole(0), current_step_progress))]]

---------------------------------------------------------------------------
(* The pipeline executor's pure parts *)

\* upload_video: the processing options an upload can store.  A key is
\* stored only when its value is truthy; the absent key reads as <<>>/FALSE.
OpLists == UNION {[1..n -> [type : VALID_OPERATION_TYPES]] : n \in 0..MaxOps}

OptionSets ==
    [edit_operations : OpLists,
     remove_silence : BOOLEAN,
     auto_crop_face : BOOLEAN]

\* apply_operations: the operation lists it accepts, of any kind; "other"
\* stands for every kind that is not one of the four.
AnyOpLists ==
    UNION {[1..n -> [type : VALID_OPERATION_TYPES \cup {"other"}]] : n \in 0..MaxOps}

\* Mutant: the pipeline that crops before it removes silence.
StepListCropFirst(options) ==
    (IF options.edit_operations # <<>>
        THEN <<[name |-> "Natural Language Editing", key |-> "nl_edit"]>>
        ELSE <<>>)
    \o (IF options.auto_crop_face
        THEN <<[name |-> "Face Auto-Crop", key |-> "face_crop"]>>
        ELSE <<>>)
    \o (IF options.remove_silence
        THEN <<[name |-> "Silence Removal", key |-> "silence_removal"]>>
        ELSE <<>>)

\* video_processor: the ordered pipeline built from the options
StepList(options) ==
    (IF options.edit_operations # <<>>
        THEN <<[name |-> "Natural Language Editing", key |-> "nl_edit"]>>
        ELSE <<>>)
    \o (IF options.remove_silence
        THEN <<[name |-> "Silence Removal", key |-> "silence_removal"]>>
        ELSE <<>>)
    \o (IF options.auto_crop_face
        THEN <<[name |-> "Face Auto-Crop", key |-> "face_crop"]>>
        ELSE <<>>)

\* video_processor: is_last = i == total_steps - 1
IsLast(i, total) == i = total - 1

\* Mutant: the final output path given to the step before the last.
StepOutputOffByOne(i, total_steps) ==
    IF i = total_steps - 2 THEN OutputPath ELSE PipelinePath(i)

\* video_processor: where step i of total_steps writes
StepOutput(i, total_steps) ==
    IF IsLast(i, total_steps) THEN OutputPath ELSE PipelinePath(i)

\* Mutant: the base of the step counted from one.
BaseProgressFromOne(i, total_steps) ==
    RMul(Frac(i + 1, total_steps), Whole(100))

\* video_processor: base_progress = (i / total_steps) * 100
BaseProgress(i, total_steps) == RMul(Frac(i, total_steps), Whole(100))

\* video_processor: step_weight = 100 / total_steps
StepWeight(total_steps) == Frac(100, total_steps)

\* Mutant: the overall progress that forgets the base of the step.
OverallWithoutBase(base, weight, sub_progress) ==
    RMul(RDiv(sub_progress, Whole(100)), weight)

\* cb: overall = base + (sub_progress / 100) * weight
Overall(base, weight, sub_progress) ==
    RAdd(base, RMul(RDiv(sub_progress, Whole(100)), weight))

\* Mutant: the cleanup that runs only when no step raised.
PipelineCleanupOnSuccess(temp_files, exc) ==
    IF exc = "none" THEN temp_files ELSE <<>>

\* video_processor, finally: the files it unlinks
PipelineCleanup(temp_files, exc) == temp_files

\* apply_operations: where operation i of total_ops writes
OpOutput(i, total_ops, output_path) ==
    IF IsLast(i, total_ops) THEN output_path ELSE NlTempPath(i)

\* Mutant: the progress of the operations counted down.
OpProgressCountedDown(i, total_ops) ==
    RMul(Frac(total_ops - i, total_ops), Whole(100))

\* apply_operations: progress_callback((i / total_ops) * 100)
OpProgress(i, total_ops) == RMul(Frac(i, total_ops), Whole(100))

\* apply_operations, finally: the files it unlinks
OpCleanup(temp_files, exc) == temp_files

\* Mutant: __aexit__ that leaves the status as __aenter__ set it.
ExitStatusStaysProcessing(exc_type) == "processing"

\* ProcessingContext.__aexit__: the status it persists
ExitStatus(exc_type) == IF exc_type = "none" THEN "completed" ELSE "error"

\* Mutant: __aexit__ returning True.
AExitReturnTrue == TRUE

\* ProcessingContext.__aexit__, exception: return False (a true value
\* would swallow the exception)
AExitReturn == FALSE

\* Mutant: the no-steps branch that returns without copying.
CopyOriginalSkipped(fs, input_path, output_path) == fs

\* video_processor, no steps: shutil.copy2(input_path, output_path)
CopyOriginal(fs, input_path, output_path) == Copy2(fs, input_path, output_path)

\* Mutant: the loop that never advances its input.
NextInputStale(current_input, step_output) == current_input

\* video_processor: current_input = step_output
NextInput(current_input, step_output) == step_output

\* Mutant: the loop over the operations that never advances its input.
NextOpInputStale(current_input, current_output) == current_input

\* apply_operations: current_input = current_output
NextOpInput(current_input, current_output) == current_output

\* Longest timeline of the model, in seconds.
MaxDuration == 2

\* get_video_duration of a step's input
TotalDuration == MaxDuration

\* What detect_silent_segments can return here: at most one interval
\* (start, end) with 0 <= start < end <= the duration.
SilenceOutcomes ==
    {<<>>} \cup
    UNION {{<< <<a, b>> >> : b \in (a + 1)..MaxDuration} : a \in 0..(MaxDuration - 1)}

\* sorted(silent_segments, key=lambda x: x[0]): a stable insertion sort
RECURSIVE InsertByStart(_, _)
InsertByStart(x, s) ==
    IF s = <<>> THEN <<x>>
    ELSE IF x[1] < Head(s)[1] THEN <<x>> \o s
    ELSE <<Head(s)>> \o InsertByStart(x, Tail(s))

RECURSIVE SortByStart(_)
SortByStart(s) ==
    IF s = <<>> THEN <<>>
    ELSE InsertByStart(s[Len(s)], SortByStart(SubSeq(s, 1, Len(s) - 1)))

\* Mutant: the sweep that moves prev_end to each interval's end, forgetting
\* the max.
RECURSIVE SweepWithoutMax(_, _, _)
SweepWithoutMax(s, prev_end, non_silent) ==
    IF s = <<>> THEN [non_silent |-> non_silent, prev_end |-> prev_end]
    ELSE SweepWithoutMax(Tail(s),
               Head(s)[2],
               IF Head(s)[1] > prev_end
               THEN Append(non_silent, <<prev_end, Head(s)[1]>>)
               ELSE non_silent)

\* _compute_non_silent_segments: the sweep over the sorted intervals
RECURSIVE Sweep(_, _, _)
Sweep(s, prev_end, non_silent) ==
    IF s = <<>> THEN [non_silent |-> non_silent, prev_end |-> prev_end]
    ELSE Sweep(Tail(s),
               IF prev_end >= Head(s)[2] THEN prev_end ELSE Head(s)[2],
               IF Head(s)[1] > prev_end
               THEN Append(non_silent, <<prev_end, Head(s)[1]>>)
               ELSE non_silent)

\* Mutant: the complement without the interval after the last silence.
ComputeNonSilentWithoutTail(silent_segments, total_duration) ==
    IF silent_segments = <<>> THEN << <<0, total_duration>> >>
    ELSE Sweep(SortByStart(silent_segments), 0, <<>>).non_silent

\* _compute_non_silent_segments
ComputeNonSilent(silent_segments, total_duration) ==
    IF silent_segments = <<>> THEN << <<0, total_duration>> >>
    ELSE LET w == Sweep(SortByStart(silent_segments), 0, <<>>)
         IN  IF w.prev_end < total_duration
             THEN Append(w.non_silent, <<w.prev_end, total_duration>>)
             ELSE w.non_silent

\* Mutant: the copy taken only when no silence was detected.
CopiesInputWhenNoSilence(silent_segments, total_duration) ==
    silent_segments = <<>>

\* remove_silence: "if not silent_segments" and "if not non_silent", the two
\* cases in which the input is copied to the output
CopiesInput(silent_segments, total_duration) ==
    \/ silent_segments = <<>>
    \/ ComputeNonSilent(silent_segments, total_duration) = <<>>

\* Latest time of a timeline the computations are tried on, in seconds.
MaxTime == 5

\* Longest diagnostic stream, in marker lines.
MaxLines == 4

\* Longest list of silent intervals given to the complement directly.
MaxSegments == 2

\* The times a marker line can print; -1 stands for every negative time
\* (silencedetect prints one for silence at the very start of the audio).
MarkerTimes == -1..MaxTime

RECURSIVE Ascending(_)
Ascending(T) ==
    IF T = {} THEN <<>>
    ELSE LET m == CHOOSE x \in T : \A y \in T : x <= y
         IN  <<m>> \o Ascending(T \ {m})

\* result.stderr: the marker lines silencedetect writes, a silence_start
\* and then its silence_end, at increasing times; the last silence_start
\* may have no silence_end.
Streams ==
    {[k \in 1..Cardinality(T) |->
         [marker |-> IF k % 2 = 1 THEN "silence_start" ELSE "silence_end",
          t |-> Ascending(T)[k]]] :
     T \in {U \in SUBSET MarkerTimes : Cardinality(U) <= MaxLines}}

\* re.search(marker + r":\s*([\d.]+)", line): the pattern takes digits and
\* dots only, so a line whose time starts with a minus sign does not match.
Matches(line, marker) == line.marker = marker /\ line.t >= 0

\* silence_starts, silence_ends: float(group(1)) of the matching lines
Matched(stream, marker) ==
    LET sel == SelectSeq(stream, LAMBDA line : Matches(line, marker))
    IN  [k \in 1..Len(sel) |-> sel[k].t]

\* detect_silent_segments: the i-th start with the i-th end, or with the
\* probed duration when there is no i-th end
DetectSilentSegments(stream, duration) ==
    LET silence_starts == Matched(stream, "silence_start")
        silence_ends == Matched(stream, "silence_end")
    IN  [i \in 1..Len(silence_starts) |->
            IF i <= Len(silence_ends)
            THEN <<silence_starts[i], silence_ends[i]>>
            ELSE <<silence_starts[i], duration>>]

\* remove_silence: the trim/atrim pair of each audible interval, in the
\* order of the concat filter's inputs
FilterParts(non_silent) ==
    [i \in 1..Len(non_silent) |->
        [label |-> i - 1,
         start |-> non_silent[i][1],
         duration |-> non_silent[i][2] - non_silent[i][1]]]

\* The silent interval lists the complement is tried on: intervals
\* (start, end) with 0 <= start < end, in any order, overlapping or not.
Intervals == {iv \in (0..MaxTime) \X (0..MaxTime) : iv[1] < iv[2]}

SegmentLists == UNION {[1..n -> Intervals] : n \in 0..MaxSegments}

---------------------------------------------------------------------------
(* _change_speed *)

\* Largest numerator and denominator of a speed factor tried.
MaxFactor == 10

\* The speed factors tried: the fractions n/d, zero included.
Factors == {Frac(n, d) : n \in 0..MaxFactor, d \in 1..MaxFactor}

RLess(x, y) == ~RLeq(y, x)

\* while remaining > 2.0: audio_parts.append("atempo=2.0"); remaining /= 2.0
RECURSIVE WhileAboveTwo(_, _)
WhileAboveTwo(audio_parts, remaining) ==
    IF RLess(Whole(2), remaining)
    THEN WhileAboveTwo(Append(audio_parts, Whole(2)), RDiv(remaining, Whole(2)))
    ELSE [audio_parts |-> audio_parts, remaining |-> remaining]

\* while remaining < 0.5: audio_parts.append("atempo=0.5"); remaining /= 0.5
RECURSIVE WhileBelowHalf(_, _)
WhileBelowHalf(audio_parts, remaining) ==
    IF RLess(remaining, Frac(1, 2))
    THEN WhileBelowHalf(Append(audio_parts, Frac(1, 2)), RDiv(remaining, Frac(1, 2)))
    ELSE [audio_parts |-> audio_parts, remaining |-> remaining]

\* Mutant: the factor given to one atempo stage, whatever its size.
AtempoStagesUnchained(factor) == <<factor>>

\* _change_speed: the atempo stages of the audio filter
AtempoStages(factor) ==
    LET a == WhileAboveTwo(<<>>, factor)
        b == WhileBelowHalf(a.audio_parts, a.remaining)
    IN  Append(b.audio_parts, b.remaining)

\* _change_speed up to the codec invocation: 1 / factor raises
\* ZeroDivisionError for a zero factor, before any stage is built.
ChangeSpeed(factor) ==
    IF factor = Whole(0)
    THEN [error |-> "ZeroDivisionError", setpts |-> Whole(0), stages |-> <<>>]
    ELSE [error |-> "none", setpts |-> RDiv(Whole(1), factor),
          stages |-> AtempoStages(factor)]

---------------------------------------------------------------------------
(* face_crop *)

TARGET_ASPECT_W == 9

TARGET_ASPECT_H == 16

\* Largest width and height of a source tried, in pixels, next to 1920x1080.
MaxDim == 6

\* Longest list of face samples tried.
MaxSamples == 2

\* The face centres tried are the multiples of 1/CenterSteps in [0, 1].
CenterSteps == 2

\* What cv2 reports for a dimension: 0 when it cannot tell.
Dims == 0..MaxDim

Sizes == (Dims \X Dims) \cup {<<1920, 1080>>}

\* What cv2 reports for CAP_PROP_FRAME_COUNT: 0 when it cannot tell.
FrameCounts == {0, 1}

\* (center_x, center_y) of a detection, in normalised coordinates
Centres == {Frac(k, CenterSteps) : k \in 0..CenterSteps}

FacePositions ==
    UNION {[1..n -> [cx : Centres, cy : Centres]] : n \in 0..MaxSamples}

\* int(x) of Python: truncation toward zero
TruncZero(x) == IF x.n >= 0 THEN x.n \div x.d ELSE -((-x.n) \div x.d)

RECURSIVE RSum(_)
RSum(xs) == IF xs = <<>> THEN Whole(0) ELSE RAdd(xs[1], RSum(Tail(xs)))

\* float(np.mean(xs))
Mean(xs) == RDiv(RSum(xs), Whole(Len(xs)))

\* Mutant: the dimension left odd.
EvenKept(v) == v

\* _compute_crop_region: crop_w - (crop_w % 2)
Even(v) == v - (v % 2)

\* Mutant: the position left where the face puts it.
ClampToUnclamped(v, limit) == v

\* _compute_crop_region: max(0, min(crop_x, video_width - crop_w))
ClampTo(v, limit) ==
    LET m == IF v < limit THEN v ELSE limit
    IN  IF 0 > m THEN 0 ELSE m

\* _compute_crop_region
ComputeCropRegion(face_positions, video_width, video_height) ==
    LET avg_cx == IF face_positions = <<>> THEN Frac(1, 2)
                  ELSE Mean([k \in 1..Len(face_positions) |-> face_positions[k].cx])
        avg_cy == IF face_positions = <<>> THEN Frac(1, 2)
                  ELSE Mean([k \in 1..Len(face_positions) |-> face_positions[k].cy])
        tall_w == TruncZero(Frac(video_height * TARGET_ASPECT_W, TARGET_ASPECT_H))
        wide == tall_w > video_width
        w == IF wide THEN video_width ELSE tall_w
        h == IF wide
             THEN TruncZero(Frac(video_width * TARGET_ASPECT_H, TARGET_ASPECT_W))
             ELSE video_height
        crop_w == Even(w)
        crop_h == Even(h)
        crop_x == TruncZero(RAdd(RMul(avg_cx, Whole(video_width)), Frac(-crop_w, 2)))
        crop_y == TruncZero(RAdd(RMul(avg_cy, Whole(video_height)), Frac(-crop_h, 2)))
    IN  [crop_x |-> ClampTo(crop_x, video_width - crop_w),
         crop_y |-> ClampTo(crop_y, video_height - crop_h),
         crop_w |-> crop_w,
         crop_h |-> crop_h]

\* No rectangle computed.
NoCrop == [crop_x |-> -1, crop_y |-> -1, crop_w |-> -1, crop_h |-> -1]

---------------------------------------------------------------------------
(* parse_edit_instructions *)

\* Longest list of operations in a response of the LLM tried.
MaxRawOps == 2

\* The JSON values tried for the required parameter of an operation: the
\* key absent, a string, true, NaN, and the numbers 0 and 1.
ParamValues ==
    {[json |-> j, value |-> 0] : j \in {"absent", "string", "NaN"}}
    \cup {[json |-> "true", value |-> 1]}
    \cup {[json |-> "number", value |-> v] : v \in 0..1}

\* An operation object of the response: its "type", the value of the
\* parameter REQUIRED_PARAMS names for the type, and whether it carries a
\* key besides these two.
RawOps ==
    [type : VALID_OPERATION_TYPES \cup {"other"},
     param : ParamValues,
     extra : BOOLEAN]

RawOpLists == UNION {[1..n -> RawOps] : n \in 0..MaxRawOps}

\* isinstance(op[param], (int, float)): bool is a subclass of int
IsIntOrFloat(param) == param.json \in {"number", "true", "NaN"}

\* op[param] <= 0: False for True and for NaN
NotPositive(param) == param.json = "number" /\ param.value <= 0

\* _validate_operation
ValidateOperation(op) ==
    /\ op.type \in VALID_OPERATION_TYPES
    /\ op.param.json # "absent"
    /\ IsIntOrFloat(op.param)
    /\ ~NotPositive(op.param)

\* parse_edit_instructions: the operations it keeps
Validated(operations) == SelectSeq(operations, ValidateOperation)

---------------------------------------------------------------------------
(* File names *)

\* The uuid4 values tried as video identifiers.
MaxVideos == 3

VideoIds == 1..MaxVideos

\* Mutant: the name that leaves the video identifier out.
PathOfNoVideo(video_id, path) == [video_id |-> 0, name |-> path]

\* Every path of a run has the video identifier in its name:
\* <video_id>.<ext>, processed_<video_id>.<ext>,
\* _pipeline_<i>_<video_id>.<ext>, _nltemp_<i>_<input stem>.<ext>, where
\* the input of apply_operations is the uploaded file.
PathOf(video_id, path) == [video_id |-> video_id, name |-> path]

\* The processing options whose edit operations are speed changes.
SpeedOptionSets ==
    {o \in OptionSets :
        \A k \in 1..Len(o.edit_operations) : o.edit_operations[k].type = "speed"}

---------------------------------------------------------------------------
(* State *)

VARIABLES
    files,      \* the files on disk: path -> content
    metaFile,   \* uploads/<video_id>.json: a record, or Torn
    writes,     \* history: every record a json.dump stored, with its run
    run,        \* per run: the position and the locals of process_video
    observed,   \* what the last poll of the record obtained
    calc,       \* one call of remove_silence's computations, on its own
    client      \* the requests of a client: its event stream, what it was served

vars == <<files, metaFile, writes, run, observed, calc, client>>

\* No computation under way.
NoCalc == [phase |-> "none"]

\* No client.
NoClient == [kind |-> "none"]

\* No metadata update in flight.
NoRequest ==
    [kind |-> "none", phase |-> "none", handler |-> "none",
     status |-> "", processed |-> FALSE,
     progress |-> Whole(0), current_step |-> "", total_steps |-> 0,
     current_step_progress |-> Whole(0),
     metadata |-> Torn,
     seen |-> 0]                    \* history: the writes stored when it read

\* context.update_status(status, processed), raising to handler
StatusRequest(status, processed, handler) ==
    [NoRequest EXCEPT !.kind = "status", !.phase = "read",
                      !.handler = handler,
                      !.status = status, !.processed = processed]

\* context.update_progress(progress, current_step, total_steps, current_step_progress)
ProgressRequest(progress, current_step, total_steps, current_step_progress, handler) ==
    [NoRequest EXCEPT !.kind = "progress", !.phase = "read",
                      !.handler = handler,
                      !.progress = progress, !.current_step = current_step,
                      !.total_steps = total_steps,
                      !.current_step_progress = current_step_progress]

\* The locals of a run before ProcessingContext is constructed.
NewRun(pc) ==
    [pc |-> pc,
     exc |-> "none",
     wr |-> NoRequest,
     metadata |-> Torn,             \* context.metadata
     steps |-> <<>>,
     total_steps |-> 0,
     i |-> 0,
     current_input |-> InputPath,
     step_output |-> InputPath,
     temp_files |-> <<>>,
     cb |-> [base |-> Whole(0), weight |-> Whole(0), name |-> "", total |-> 0],
     op_i |-> 0,                    \* apply_operations: i
     op_input |-> InputPath,        \* apply_operations: current_input
     op_output |-> InputPath,       \* apply_operations: current_output
     op_temp_files |-> <<>>,        \* apply_operations: temp_files
     silent_segments |-> <<>>,
     started |-> <<>>,              \* history: the component calls made
     running |-> {},                \* history: the steps now executing
     op_calls |-> <<>>,             \* history: the operations invoked
     loop |-> FALSE]                \* the coroutine runs on the event loop

\* upload_video: the file is saved, the record is stored, one run is queued.
Init ==
    /\ files = (InputPath :> Original)
    /\ \E o \in OptionSets : metaFile = UploadRecord(o)
    /\ writes = <<>>
    /\ run = [r \in Runs |-> IF r = 1 THEN NewRun("dispatched") ELSE NewRun("idle")]
    /\ observed = "none"
    /\ client = NoClient
    /\ calc = NoCalc

Idle(r) == run[r].wr.kind = "none"

At(r, pc) == run[r].pc = pc /\ Idle(r)

\* The coroutine of run q is the one the event loop is executing: between
\* two awaits of asyncio.to_thread no other coroutine runs.
HoldsLoop(q) ==
    run[q].loop /\ ~(run[q].pc \in {"returned", "raised"} /\ Idle(q))

\* Run r may execute on the event loop: it is the coroutine running there,
\* or no coroutine is.
LoopFree(r) == \A q \in Runs \ {r} : ~HoldsLoop(q)

\* Run r is at pc in its coroutine (not in a worker thread).
AtLoop(r, pc) == At(r, pc) /\ LoopFree(r)

\* The progress callback of the current step: cb(sub_progress)
Cb(r, sub_progress, handler) ==
    ProgressRequest(Overall(run[r].cb.base, run[r].cb.weight, sub_progress),
                    run[r].cb.name, run[r].cb.total, sub_progress, handler)

---------------------------------------------------------------------------
(* A metadata update: get_metadata, open(.., "w"), json.dump *)

\* Mutant: the update that starts from the record the context holds.
RecordReadCached(file, cached) == cached

\* update_metadata_processing_status, update_processing_progress:
\* metadata = get_metadata(video_id), the file as it is now and not the
\* record context.metadata holds
RecordRead(file, cached) == file

\* The record the update builds from the one it read.
Updated(req, metadata) ==
    IF req.kind = "status"
    THEN WithStatus(metadata, req.status, req.processed)
    ELSE WithProgress(metadata, req.progress, req.current_step,
                      req.total_steps, req.current_step_progress)

\* get_metadata and the assignments to the local record; an unparseable
\* file raises HTTPException(500) into the caller.
MetaRead(r) ==
    /\ run[r].wr.phase = "read"
    /\ IF Readable(metaFile)
       THEN run' = [run EXCEPT ![r].wr.metadata =
                                  Updated(run[r].wr,
                                          RecordRead(metaFile, run[r].metadata)),
                               ![r].wr.seen = Len(writes),
                               ![r].wr.phase = "open"]
       ELSE run' = [run EXCEPT ![r].wr = NoRequest,
                               ![r].exc = "HTTPException",
                               ![r].pc = run[r].wr.handler,
                               ![r].running =
                                  IF run[r].wr.handler = "apply_finally"
                                  THEN @ ELSE {}]
    /\ UNCHANGED <<calc, observed, client, files, metaFile, writes>>

\* open(metadata_path, "w") truncates the file
MetaOpen(r) ==
    /\ run[r].wr.phase = "open"
    /\ metaFile' = Torn
    /\ run' = [run EXCEPT ![r].wr.phase = "dump"]
    /\ UNCHANGED <<calc, observed, client, files, writes>>

\* json.dump(metadata, f) and the close
MetaDump(r) ==
    /\ run[r].wr.phase = "dump"
    /\ metaFile' = run[r].wr.metadata
    /\ writes' = Append(writes, [by |-> r, rec |-> run[r].wr.metadata,
                                  kind |-> run[r].wr.kind,
                                  seen |-> run[r].wr.seen])
    /\ run' = [run EXCEPT ![r].wr = NoRequest]
    /\ UNCHANGED <<calc, observed, client, files>>

---------------------------------------------------------------------------
(* process_video and ProcessingContext *)

\* ProcessingContext.__init__: context.metadata = get_metadata(video_id)
Construct(r) ==
    /\ AtLoop(r, "dispatched")
    /\ IF Readable(metaFile)
       THEN run' = [run EXCEPT ![r].metadata = metaFile, ![r].pc = "aenter",
                               ![r].loop = TRUE]
       ELSE run' = [run EXCEPT ![r].exc = "HTTPException", ![r].pc = "raised"]
    /\ UNCHANGED <<calc, observed, client, files, metaFile, writes>>

\* ProcessingContext.__aenter__: update_status("processing")
AEnter(r) ==
    /\ AtLoop(r, "aenter")
    /\ run' = [run EXCEPT ![r].wr = StatusRequest("processing", FALSE, "raised"),
                          ![r].pc = "processor"]
    /\ UNCHANGED <<calc, observed, client, files, metaFile, writes>>

\* ProcessingContext.__aexit__: update_status of the outcome
AExit(r) ==
    /\ AtLoop(r, "aexit")
    /\ run' = [run EXCEPT
            ![r].wr = StatusRequest(ExitStatus(run[r].exc),
                                    run[r].exc = "none", "raised"),
            ![r].pc = IF run[r].exc = "none" THEN "aexit_progress"
                      ELSE IF AExitReturn THEN "returned"
                      ELSE "raised"]
    /\ UNCHANGED <<calc, observed, client, files, metaFile, writes>>

\* ProcessingContext.__aexit__, no exception: update_progress(100)
AExitProgress(r) ==
    /\ AtLoop(r, "aexit_progress")
    /\ run' = [run EXCEPT
            ![r].wr = ProgressRequest(Whole(100), "", 0, Whole(0), "raised"),
            ![r].pc = "returned"]
    /\ UNCHANGED <<calc, observed, client, files, metaFile, writes>>

---------------------------------------------------------------------------
(* video_processor *)

\* Mutant: the failed step is tried again instead of raising.
RaiseAndRetry(r, e) ==
    [run EXCEPT ![r].exc = e, ![r].running = {}, ![r].pc = "step"]

\* The step raises out of its component into video_processor's finally.
Raise(r, e) ==
    [run EXCEPT ![r].exc = e, ![r].running = {}, ![r].pc = "finally"]

\* Build the step list; with no steps copy the original and return.
BuildPipeline(r) ==
    /\ AtLoop(r, "processor")
    /\ LET steps == StepList(run[r].metadata.processing_options)
       IN  IF steps = <<>>
           THEN IF Exists(files, InputPath)
                THEN /\ files' = CopyOriginal(files, InputPath, OutputPath)
                     /\ run' = [run EXCEPT ![r].pc = "aexit"]
                ELSE /\ files' = files
                     /\ run' = [run EXCEPT ![r].pc = "aexit",
                                           ![r].exc = "FileNotFoundError"]
           ELSE /\ files' = files
                /\ run' = [run EXCEPT ![r].steps = steps,
                                      ![r].total_steps = Len(steps),
                                      ![r].current_input = InputPath,
                                      ![r].temp_files = <<>>,
                                      ![r].i = 0,
                                      ![r].pc = "step"]
    /\ UNCHANGED <<calc, observed, client, metaFile, writes>>

\* The head of the loop body: the output path, the progress callback, and
\* the call of the step's component in a worker thread.
StepBegin(r) ==
    /\ AtLoop(r, "step")
    /\ LET i == run[r].i
           total == run[r].total_steps
           out == StepOutput(i, total)
           step == run[r].steps[i + 1]
       IN  run' = [run EXCEPT
                ![r].step_output = out,
                ![r].temp_files = IF IsLast(i, total) THEN @ ELSE Append(@, out),
                ![r].cb = [base |-> BaseProgress(i, total),
                           weight |-> StepWeight(total),
                           name |-> step.name,
                           total |-> total],
                ![r].started = Append(@, [key |-> step.key,
                                          input |-> run[r].current_input,
                                          output |-> out]),
                ![r].running = @ \cup {i},
                ![r].loop = FALSE,
                ![r].pc = CASE step.key = "nl_edit" -> "apply_operations"
                            [] step.key = "silence_removal" -> "remove_silence"
                            [] OTHER -> "auto_crop_face"]
    /\ UNCHANGED <<calc, observed, client, files, metaFile, writes>>

\* The component returned: move to the next input.
StepEnd(r) ==
    /\ AtLoop(r, "step_end")
    /\ run' = [run EXCEPT
            ![r].current_input = NextInput(@, run[r].step_output),
            ![r].running = @ \ {run[r].i},
            ![r].silent_segments = <<>>,
            ![r].loop = TRUE,
            ![r].i = @ + 1,
            ![r].pc = IF run[r].i + 1 < run[r].total_steps THEN "step"
                      ELSE "finally"]
    /\ UNCHANGED <<calc, observed, client, files, metaFile, writes>>

\* finally: unlink the intermediate pipeline files
Finally(r) ==
    /\ AtLoop(r, "finally")
    /\ files' = UnlinkAll(files, PipelineCleanup(run[r].temp_files, run[r].exc))
    /\ run' = [run EXCEPT ![r].pc = "aexit", ![r].loop = TRUE]
    /\ UNCHANGED <<calc, observed, client, metaFile, writes>>

---------------------------------------------------------------------------
(* apply_operations *)

Operations(r) == run[r].metadata.processing_options.edit_operations

ApplyOperations(r) ==
    /\ At(r, "apply_operations")
    /\ IF Operations(r) = <<>>
       THEN /\ Exists(files, run[r].current_input)
            /\ files' = Copy2(files, run[r].current_input, run[r].step_output)
            /\ run' = [run EXCEPT ![r].wr = Cb(r, Whole(100), "finally"),
                                  ![r].pc = "step_end"]
       ELSE /\ files' = files
            /\ run' = [run EXCEPT ![r].op_i = 0,
                                  ![r].op_input = run[r].current_input,
                                  ![r].op_temp_files = <<>>,
                                  ![r].pc = "op_head"]
    /\ UNCHANGED <<calc, observed, client, metaFile, writes>>

\* The head of the loop body: the output path and the progress report.
OpHead(r) ==
    /\ At(r, "op_head")
    /\ LET i == run[r].op_i
           total_ops == Len(Operations(r))
           out == OpOutput(i, total_ops, run[r].step_output)
       IN  run' = [run EXCEPT
                ![r].op_output = out,
                ![r].op_temp_files =
                    IF IsLast(i, total_ops) THEN @ ELSE Append(@, out),
                ![r].wr = Cb(r, OpProgress(i, total_ops), "apply_finally"),
                ![r].pc = "op_exec"]
    /\ UNCHANGED <<calc, observed, client, files, metaFile, writes>>

\* The operation's codec invocation succeeds (an unknown type is skipped
\* with a warning, and copied unless it is the last).
OpRun(r) ==
    /\ At(r, "op_exec")
    /\ LET i == run[r].op_i
           total_ops == Len(Operations(r))
           op_type == Operations(r)[i + 1].type
           more == i + 1 < total_ops
       IN  /\ IF op_type \in VALID_OPERATION_TYPES
              THEN /\ Exists(files, run[r].op_input)
                   /\ files' = WriteFile(files, run[r].op_output,
                                         Append(files[run[r].op_input], op_type))
              ELSE IF ~IsLast(i, total_ops)
              THEN /\ Exists(files, run[r].op_input)
                   /\ files' = Copy2(files, run[r].op_input, run[r].op_output)
              ELSE files' = files
           /\ run' = [run EXCEPT
                ![r].op_calls = Append(@, [type |-> op_type,
                                           input |-> run[r].op_input,
                                           output |-> run[r].op_output]),
                ![r].op_input = NextOpInput(@, run[r].op_output),
                ![r].op_i = @ + 1,
                ![r].wr = IF more THEN @ ELSE Cb(r, Whole(100), "apply_finally"),
                ![r].pc = IF more THEN "op_head" ELSE "apply_finally"]
    /\ UNCHANGED <<calc, observed, client, metaFile, writes>>

\* The operation fails: the codec tool or the duration probe exits non-zero
\* (RuntimeError), or the copy finds no input.
OpFail(r) ==
    /\ At(r, "op_exec")
    /\ LET op_type == Operations(r)[run[r].op_i + 1].type
       IN  \/ op_type \in VALID_OPERATION_TYPES
           \/ /\ ~IsLast(run[r].op_i, Len(Operations(r)))
              /\ ~Exists(files, run[r].op_input)
    /\ \E leaves \in BOOLEAN :
          files' = IF leaves THEN WriteFile(files, run[r].op_output, Partial)
                   ELSE files
    /\ run' = [run EXCEPT
            ![r].op_calls = Append(@, [type |-> Operations(r)[run[r].op_i + 1].type,
                                       input |-> run[r].op_input,
                                       output |-> run[r].op_output]),
            ![r].exc = "RuntimeError",
            ![r].pc = "apply_finally"]
    /\ UNCHANGED <<calc, observed, client, metaFile, writes>>

\* finally: unlink the intermediate files of the operations, then return
\* or raise into video_processor.
ApplyFinally(r) ==
    /\ At(r, "apply_finally")
    /\ files' = UnlinkAll(files, OpCleanup(run[r].op_temp_files, run[r].exc))
    /\ run' = [run EXCEPT
            ![r].op_temp_files = <<>>,
            ![r].op_i = 0,
            ![r].op_input = InputPath,
            ![r].op_output = InputPath,
            ![r].running = IF run[r].exc = "none" THEN @ ELSE {},
            ![r].pc = IF run[r].exc = "none" THEN "step_end" ELSE "finally"]
    /\ UNCHANGED <<calc, observed, client, metaFile, writes>>

---------------------------------------------------------------------------
(* remove_silence *)

RemoveSilence(r) ==
    /\ At(r, "remove_silence")
    /\ run' = [run EXCEPT ![r].wr = Cb(r, Whole(10), "finally"),
                          ![r].pc = "detect"]
    /\ UNCHANGED <<calc, observed, client, files, metaFile, writes>>

\* detect_silent_segments returns; a missing input yields no markers
Detect(r) ==
    /\ At(r, "detect")
    /\ \E segs \in SilenceOutcomes :
          /\ Exists(files, run[r].current_input) \/ segs = <<>>
          /\ run' = [run EXCEPT ![r].silent_segments = segs,
                                ![r].wr = Cb(r, Whole(30), "finally"),
                                ![r].pc = "after_detect"]
    /\ UNCHANGED <<calc, observed, client, files, metaFile, writes>>

\* No silence, or nothing audible: copy the input.  Otherwise go on to the
\* concatenation of the audible intervals.
AfterDetect(r) ==
    /\ At(r, "after_detect")
    /\ Exists(files, run[r].current_input)
    /\ IF CopiesInput(run[r].silent_segments, TotalDuration)
       THEN /\ files' = Copy2(files, run[r].current_input, run[r].step_output)
            /\ run' = [run EXCEPT ![r].wr = Cb(r, Whole(100), "finally"),
                                  ![r].pc = "step_end"]
       ELSE /\ files' = files
            /\ run' = [run EXCEPT ![r].wr = Cb(r, Whole(50), "finally"),
                                  ![r].pc = "concat"]
    /\ UNCHANGED <<calc, observed, client, metaFile, writes>>

\* The codec tool concatenates the audible intervals.
Concat(r) ==
    /\ At(r, "concat")
    /\ Exists(files, run[r].current_input)
    /\ files' = WriteFile(files, run[r].step_output,
                          Append(files[run[r].current_input], "silence_removal"))
    /\ run' = [run EXCEPT ![r].wr = Cb(r, Whole(100), "finally"),
                          ![r].pc = "step_end"]
    /\ UNCHANGED <<calc, observed, client, metaFile, writes>>

\* remove_silence raises: the duration probe of an unmatched start (detect)
\* or of the input (after_detect) fails, the copy finds no input, or the
\* codec tool exits non-zero, leaving a partial output or none.
SilenceFail(r) ==
    /\ \/ At(r, "detect") /\ Exists(files, run[r].current_input)
       \/ At(r, "after_detect") /\ run[r].silent_segments # <<>>
       \/ At(r, "after_detect") /\ ~Exists(files, run[r].current_input)
       \/ At(r, "concat")
    /\ \E leaves \in BOOLEAN :
          /\ leaves => run[r].pc = "concat"
          /\ files' = IF leaves THEN WriteFile(files, run[r].step_output, Partial)
                      ELSE files
    /\ run' = Raise(r, IF At(r, "after_detect") /\ run[r].silent_segments = <<>>
                       THEN "FileNotFoundError" ELSE "RuntimeError")
    /\ UNCHANGED <<calc, observed, client, metaFile, writes>>

---------------------------------------------------------------------------
(* auto_crop_face *)

AutoCropFace(r) ==
    /\ At(r, "auto_crop_face")
    /\ run' = [run EXCEPT ![r].wr = Cb(r, Whole(5), "finally"),
                          ![r].pc = "face_open"]
    /\ UNCHANGED <<calc, observed, client, files, metaFile, writes>>

\* cv2.VideoCapture opens the input and gives its dimensions.
FaceOpen(r) ==
    /\ At(r, "face_open")
    /\ Exists(files, run[r].current_input)
    /\ run' = [run EXCEPT ![r].wr = Cb(r, Whole(10), "finally"),
                          ![r].pc = "face_sample"]
    /\ UNCHANGED <<calc, observed, client, files, metaFile, writes>>

\* _sample_face_positions returns its samples.
FaceSample(r) ==
    /\ At(r, "face_sample")
    /\ Exists(files, run[r].current_input)
    /\ run' = [run EXCEPT ![r].wr = Cb(r, Whole(50), "finally"),
                          ![r].pc = "face_region"]
    /\ UNCHANGED <<calc, observed, client, files, metaFile, writes>>

\* _compute_crop_region
FaceRegion(r) ==
    /\ At(r, "face_region")
    /\ run' = [run EXCEPT ![r].wr = Cb(r, Whole(60), "finally"),
                          ![r].pc = "face_ffmpeg"]
    /\ UNCHANGED <<calc, observed, client, files, metaFile, writes>>

\* The codec tool crops.
FaceFfmpeg(r) ==
    /\ At(r, "face_ffmpeg")
    /\ Exists(files, run[r].current_input)
    /\ files' = WriteFile(files, run[r].step_output,
                          Append(files[run[r].current_input], "face_crop"))
    /\ run' = [run EXCEPT ![r].wr = Cb(r, Whole(100), "finally"),
                          ![r].pc = "step_end"]
    /\ UNCHANGED <<calc, observed, client, metaFile, writes>>

\* auto_crop_face raises RuntimeError: the input cannot be opened, its frame
\* count is not positive, or the codec tool exits non-zero, leaving a
\* partial output or none.
FaceFail(r) ==
    /\ \/ At(r, "face_open")
       \/ At(r, "face_sample")
       \/ At(r, "face_ffmpeg")
    /\ \E leaves \in BOOLEAN :
          /\ leaves => run[r].pc = "face_ffmpeg"
          /\ files' = IF leaves THEN WriteFile(files, run[r].step_output, Partial)
                      ELSE files
    /\ run' = Raise(r, "RuntimeError")
    /\ UNCHANGED <<calc, observed, client, metaFile, writes>>

---------------------------------------------------------------------------

(* status_event_generator, get_video_metadata *)

\* A request handler polls the record: get_metadata returns it, or raises
\* HTTPException(500) on a file json.load cannot parse.  The handler is a
\* coroutine: it runs when no other coroutine does.
Poll ==
    /\ \A q \in Runs : ~HoldsLoop(q)
    /\ observed' = IF Readable(metaFile) THEN "record" ELSE "HTTPException"
    /\ UNCHANGED <<files, metaFile, writes, run, calc, client>>

---------------------------------------------------------------------------

\* One step of run r.
Step(r) ==
        \/ MetaRead(r) \/ MetaOpen(r) \/ MetaDump(r)
        \/ Construct(r) \/ AEnter(r) \/ AExit(r) \/ AExitProgress(r)
        \/ BuildPipeline(r) \/ StepBegin(r) \/ StepEnd(r) \/ Finally(r)
        \/ ApplyOperations(r) \/ OpHead(r) \/ OpRun(r) \/ OpFail(r)
        \/ ApplyFinally(r)
        \/ RemoveSilence(r) \/ Detect(r) \/ AfterDetect(r) \/ Concat(r)
        \/ SilenceFail(r)
        \/ AutoCropFace(r) \/ FaceOpen(r) \/ FaceSample(r) \/ FaceRegion(r)
        \/ FaceFfmpeg(r) \/ FaceFail(r)

Next ==
    \/ \E r \in Runs : Step(r)
    \/ Poll

Spec == Init /\ [][Next]_vars

\* The runs alone, with no reader of the record.
RunNext == \E r \in Runs : Step(r)

\* One run, for a record whose edit operations were not validated: at least
\* one is of a kind apply_operations does not know.
UnvalidatedInit ==
    /\ files = (InputPath :> Original)
    /\ \E ops \in AnyOpLists, s, c \in BOOLEAN :
          /\ \E k \in 1..Len(ops) : ops[k].type \notin VALID_OPERATION_TYPES
          /\ metaFile = UploadRecord([edit_operations |-> ops,
                                      remove_silence |-> s,
                                      auto_crop_face |-> c])
    /\ writes = <<>>
    /\ run = [r \in Runs |-> IF r = 1 THEN NewRun("dispatched") ELSE NewRun("idle")]
    /\ observed = "none"
    /\ client = NoClient
    /\ calc = NoCalc

UnvalidatedSpec == UnvalidatedInit /\ [][Next]_vars

\* remove_silence's computations on their own: detect_silent_segments on a
\* diagnostic stream and a probed duration, or _compute_non_silent_segments
\* on a list of silent intervals and a duration.
SilenceInit ==
    /\ files = (InputPath :> Original)
    /\ metaFile = UploadRecord([edit_operations |-> <<>>,
                                remove_silence |-> TRUE,
                                auto_crop_face |-> FALSE])
    /\ writes = <<>>
    /\ run = [r \in Runs |-> NewRun("idle")]
    /\ observed = "none"
    /\ client = NoClient
    /\ \E d \in 0..MaxTime :
          \/ \E st \in Streams :
                calc = [phase |-> "stream", source |-> "stream",
                        stream |-> st, duration |-> d,
                        silent |-> <<>>, non_silent |-> <<>>, parts |-> <<>>]
          \/ \E sl \in SegmentLists :
                calc = [phase |-> "segments", source |-> "list",
                        stream |-> <<>>, duration |-> d,
                        silent |-> sl, non_silent |-> <<>>, parts |-> <<>>]

\* silent_segments = detect_silent_segments(input_path, ..)
CalcDetect ==
    /\ calc.phase = "stream"
    /\ calc' = [calc EXCEPT
            !.silent = DetectSilentSegments(calc.stream, calc.duration),
            !.phase = "segments"]
    /\ UNCHANGED <<files, metaFile, writes, run, observed, client>>

\* non_silent = _compute_non_silent_segments(silent_segments, total_duration)
CalcComplement ==
    /\ calc.phase = "segments"
    /\ calc' = [calc EXCEPT
            !.non_silent = ComputeNonSilent(calc.silent, calc.duration),
            !.phase = "complement"]
    /\ UNCHANGED <<files, metaFile, writes, run, observed, client>>

\* The filter graph built from the audible intervals.
CalcFilter ==
    /\ calc.phase = "complement"
    /\ calc.non_silent # <<>>
    /\ calc' = [calc EXCEPT !.parts = FilterParts(calc.non_silent),
                            !.phase = "filter"]
    /\ UNCHANGED <<files, metaFile, writes, run, observed, client>>

SilenceNext == CalcDetect \/ CalcComplement \/ CalcFilter

SilenceSpec == SilenceInit /\ [][SilenceNext]_vars

\* Two runs of the same video, dispatched together (a second, spurious
\* add_task of process_video), for an upload that asks for one edit
\* operation and nothing else.
OverlapInit ==
    /\ files = (InputPath :> Original)
    /\ \E o \in OptionSets :
          /\ Len(o.edit_operations) = 1
          /\ ~o.remove_silence
          /\ ~o.auto_crop_face
          /\ metaFile = UploadRecord(o)
    /\ writes = <<>>
    /\ run = [r \in Runs |-> NewRun("dispatched")]
    /\ observed = "none"
    /\ client = NoClient
    /\ calc = NoCalc

\* The steps such runs can take.
OverlapNext ==
    \E r \in Runs :
        \/ MetaRead(r) \/ MetaOpen(r) \/ MetaDump(r)
        \/ Construct(r) \/ AEnter(r) \/ AExit(r) \/ AExitProgress(r)
        \/ BuildPipeline(r) \/ StepBegin(r) \/ StepEnd(r) \/ Finally(r)
        \/ ApplyOperations(r) \/ OpHead(r) \/ OpRun(r) \/ OpFail(r)
        \/ ApplyFinally(r)

OverlapSpec == OverlapInit /\ [][OverlapNext]_vars

\* The path computations of video_processor and apply_operations on their
\* own, for two uploads: upload_video gives each a fresh uuid4, each has its
\* run, and each run names the output of its steps and of its operations.
PathsInit ==
    /\ files = << >>                \* nothing is written here
    /\ metaFile = Torn
    /\ writes = <<>>
    /\ run = [r \in Runs |-> NewRun("idle")]
    /\ observed = "none"
    /\ client = NoClient
    /\ \E ids \in [Runs -> VideoIds], opts \in [Runs -> SpeedOptionSets] :
          /\ \A r1, r2 \in Runs : r1 # r2 => ids[r1] # ids[r2]
          /\ calc = [phase |-> "paths",
                     of |-> [r \in Runs |->
                               [video_id |-> ids[r],
                                options |-> opts[r],
                                i |-> 0,
                                in_operations |-> FALSE,
                                op_i |-> 0,
                                named |-> <<>>]]]

\* video_processor: step_output of step i; apply_operations is entered
\* when the step is nl_edit.
CalcStepOutput(r) ==
    LET c == calc.of[r]
        steps == StepList(c.options)
        total_steps == Len(steps)
    IN  /\ calc.phase = "paths"
        /\ ~c.in_operations
        /\ c.i < total_steps
        /\ calc' = [calc EXCEPT !.of[r] =
              [c EXCEPT
                 !.named = Append(@,
                    [step |-> c.i, level |-> "pipeline",
                     intermediate |-> ~IsLast(c.i, total_steps),
                     path |-> PathOf(c.video_id, StepOutput(c.i, total_steps))]),
                 !.in_operations = steps[c.i + 1].key = "nl_edit",
                 !.op_i = 0,
                 !.i = IF steps[c.i + 1].key = "nl_edit" THEN @ ELSE @ + 1]]
        /\ UNCHANGED <<files, metaFile, writes, run, observed, client>>

\* apply_operations: current_output of operation i
CalcOpOutput(r) ==
    LET c == calc.of[r]
        total_steps == Len(StepList(c.options))
        total_ops == Len(c.options.edit_operations)
    IN  /\ calc.phase = "paths"
        /\ c.in_operations
        /\ calc' = [calc EXCEPT !.of[r] =
              [c EXCEPT
                 !.named = Append(@,
                    [step |-> c.i, level |-> "edit",
                     intermediate |-> ~IsLast(c.op_i, total_ops),
                     path |-> PathOf(c.video_id,
                                     OpOutput(c.op_i, total_ops,
                                              StepOutput(c.i, total_steps)))]),
                 !.op_i = @ + 1,
                 !.in_operations = ~IsLast(c.op_i, total_ops),
                 !.i = IF IsLast(c.op_i, total_ops) THEN @ + 1 ELSE @]]
        /\ UNCHANGED <<files, metaFile, writes, run, observed, client>>

PathsNext == \E r \in Runs : CalcStepOutput(r) \/ CalcOpOutput(r)

PathsSpec == PathsInit /\ [][PathsNext]_vars

\* One run, for an upload whose edit operations are all of one kind (the
\* kind of an operation decides which codec helper runs, not whether the
\* run goes on).
LiveInit ==
    /\ files = (InputPath :> Original)
    /\ \E o \in OptionSets :
          /\ \A k \in 1..Len(o.edit_operations) :
                o.edit_operations[k].type = "speed"
          /\ metaFile = UploadRecord(o)
    /\ writes = <<>>
    /\ run = [r \in Runs |-> IF r = 1 THEN NewRun("dispatched") ELSE NewRun("idle")]
    /\ observed = "none"
    /\ client = NoClient
    /\ calc = NoCalc

\* Every external tool invocation and every metadata read and write
\* returns, and the event loop resumes a coroutine that can run: while a
\* run can take a step, one is eventually taken.
LiveSpec == LiveInit /\ [][RunNext]_vars /\ WF_vars(RunNext)

\* _change_speed on its own, on a speed factor.
SpeedInit ==
    /\ files = (InputPath :> Original)
    /\ metaFile = UploadRecord([edit_operations |-> <<[type |-> "speed"]>>,
                                remove_silence |-> FALSE,
                                auto_crop_face |-> FALSE])
    /\ writes = <<>>
    /\ run = [r \in Runs |-> NewRun("idle")]
    /\ observed = "none"
    /\ client = NoClient
    /\ \E f \in Factors :
          calc = [phase |-> "factor", factor |-> f,
                  error |-> "none", setpts |-> Whole(0), stages |-> <<>>]

\* _change_speed builds its two filters.
CalcSpeed ==
    /\ calc.phase = "factor"
    /\ LET c == ChangeSpeed(calc.factor)
       IN  calc' = [calc EXCEPT !.error = c.error, !.setpts = c.setpts,
                                !.stages = c.stages, !.phase = "speed"]
    /\ UNCHANGED <<files, metaFile, writes, run, observed, client>>

SpeedNext == CalcSpeed

SpeedSpec == SpeedInit /\ [][SpeedNext]_vars

\* auto_crop_face on its own, with what cv2 and the detector report.
CropInit ==
    /\ files = (InputPath :> Original)
    /\ metaFile = UploadRecord([edit_operations |-> <<>>,
                                remove_silence |-> FALSE,
                                auto_crop_face |-> TRUE])
    /\ writes = <<>>
    /\ run = [r \in Runs |-> NewRun("idle")]
    /\ observed = "none"
    /\ client = NoClient
    /\ calc = [phase |-> "open", error |-> "none", message |-> "",
               video_width |-> 0, video_height |-> 0,
               total_frames |-> 1, face_positions |-> <<>>,
               crop |-> NoCrop, invoked |-> FALSE]

\* cv2.VideoCapture: the input cannot be opened, or its dimensions are read
CalcOpen ==
    /\ calc.phase = "open"
    /\ \/ calc' = [calc EXCEPT !.error = "RuntimeError",
                                !.message = "Cannot open video",
                                !.phase = "raised"]
       \/ \E size \in Sizes :
             calc' = [calc EXCEPT !.video_width = size[1],
                                  !.video_height = size[2],
                                  !.phase = "sample"]
    /\ UNCHANGED <<files, metaFile, writes, run, observed, client>>

\* face_positions = _sample_face_positions(input_path)
CalcSample ==
    /\ calc.phase = "sample"
    /\ \E total_frames \in FrameCounts :
          IF total_frames <= 0
          THEN calc' = [calc EXCEPT !.total_frames = total_frames,
                                    !.error = "RuntimeError",
                                    !.message = "Cannot determine frame count",
                                    !.phase = "raised"]
          ELSE \E face_positions \in FacePositions :
                  calc' = [calc EXCEPT !.total_frames = total_frames,
                                       !.face_positions = face_positions,
                                       !.phase = "region"]
    /\ UNCHANGED <<files, metaFile, writes, run, observed, client>>

\* crop_x, crop_y, crop_w, crop_h = _compute_crop_region(..)
CalcRegion ==
    /\ calc.phase = "region"
    /\ calc' = [calc EXCEPT
            !.crop = ComputeCropRegion(calc.face_positions,
                                       calc.video_width, calc.video_height),
            !.phase = "ffmpeg"]
    /\ UNCHANGED <<files, metaFile, writes, run, observed, client>>

\* The codec tool is run with crop=w:h:x:y and exits zero or non-zero.
CalcCrop ==
    /\ calc.phase = "ffmpeg"
    /\ \E returncode \in {0, 1} :
          calc' = [calc EXCEPT
              !.invoked = TRUE,
              !.error = IF returncode # 0 THEN "RuntimeError" ELSE @,
              !.message = IF returncode # 0 THEN "ffmpeg face crop failed" ELSE @,
              !.phase = IF returncode # 0 THEN "raised" ELSE "done"]
    /\ UNCHANGED <<files, metaFile, writes, run, observed, client>>

CropNext == CalcOpen \/ CalcSample \/ CalcRegion \/ CalcCrop

CropSpec == CropInit /\ [][CropNext]_vars

\* upload_video with edit instructions, on a response of the LLM that
\* parses as an object with a list of operation objects.
UploadInit ==
    /\ files = << >>                \* nothing is saved yet
    /\ metaFile = Torn
    /\ writes = <<>>
    /\ run = [r \in Runs |-> NewRun("idle")]
    /\ observed = "none"
    /\ client = NoClient
    /\ \E operations \in RawOpLists :
          calc = [phase |-> "response", operations |-> operations,
                  validated |-> <<>>, error |-> "none",
                  edit_operations |-> <<>>]

\* parse_edit_instructions validates the operations; with none valid it
\* raises ValueError, which upload_video turns into a 422 response.
CalcParse ==
    /\ calc.phase = "response"
    /\ LET validated == Validated(calc.operations)
       IN  IF validated = <<>>
           THEN calc' = [calc EXCEPT !.error = "ValueError", !.phase = "rejected"]
           ELSE calc' = [calc EXCEPT !.validated = validated, !.phase = "parsed"]
    /\ UNCHANGED <<files, metaFile, writes, run, observed, client>>

\* upload_video stores the operations in the processing options of the
\* record and queues the run.
CalcStore ==
    /\ calc.phase = "parsed"
    /\ calc' = [calc EXCEPT !.edit_operations = calc.validated,
                            !.phase = "stored"]
    /\ UNCHANGED <<files, metaFile, writes, run, observed, client>>

UploadNext == CalcParse \/ CalcStore

UploadSpec == UploadInit /\ [][UploadNext]_vars

---------------------------------------------------------------------------
(* status_event_generator: the event stream of one client *)

\* status_event_generator: the condition of its break after a status event
StreamEnds(metadata) ==
    \/ metadata.status \in {"completed", "error"}
    \/ RLeq(Whole(100), metadata.progress)
    \/ metadata.processed

\* One round of the generator's loop: get_metadata, the status event, the
\* break or the sleep; an HTTPException of get_metadata gives an error
\* event and ends the stream.  The round runs between two awaits, when no
\* other coroutine does.
StatusEventGenerator ==
    /\ client.kind = "stream"
    /\ client.state = "open"
    /\ \A q \in Runs : ~HoldsLoop(q)
    /\ IF Readable(metaFile)
       THEN client' = [client EXCEPT
                          !.last = metaFile.status,
                          !.state = IF StreamEnds(metaFile)
                                    THEN "closed" ELSE "open"]
       ELSE client' = [client EXCEPT !.state = "error"]
    /\ UNCHANGED <<files, metaFile, writes, run, observed, calc>>

\* One run, for an upload whose edit operations are all of one kind, and a
\* client that has opened the event stream of the video.
StreamInit ==
    /\ files = (InputPath :> Original)
    /\ \E o \in OptionSets :
          /\ \A k \in 1..Len(o.edit_operations) :
                o.edit_operations[k].type = "speed"
          /\ metaFile = UploadRecord(o)
    /\ writes = <<>>
    /\ run = [r \in Runs |-> IF r = 1 THEN NewRun("dispatched") ELSE NewRun("idle")]
    /\ observed = "none"
    /\ calc = NoCalc
    /\ client = [kind |-> "stream", state |-> "open", last |-> "none"]

StreamNext ==
    \/ \E r \in Runs : Step(r)
    \/ StatusEventGenerator

StreamSpec == StreamInit /\ [][StreamNext]_vars

---------------------------------------------------------------------------
(* get_video, stream_shared_video: a client asking for the video *)

MaxRequests == 3

\* Mutant: get_video_file that never looks at the processed flag.
NotAvailableYetNever(metadata, processed) == FALSE

\* get_video_file: if processed and not metadata.get("processed")
NotAvailableYet(metadata, processed) == processed /\ ~metadata.processed

\* get_video_file(video_id, processed): the path, or the HTTPException of
\* get_metadata, of the flag or of the missing file.
GetVideoFile(metadata, fs, processed) ==
    IF ~Readable(metadata) THEN [status_code |-> 500]
    ELSE IF NotAvailableYet(metadata, processed) THEN [status_code |-> 404]
    ELSE LET video_path == IF processed THEN OutputPath ELSE InputPath
         IN  IF ~Exists(fs, video_path) THEN [status_code |-> 404]
             ELSE [status_code |-> 200, video_path |-> video_path]

\* Mutant: validation that does not look at the view limit.
ValidateShareTokenAnyViews(token_data, late) ==
    ~(token_data.expires_at # "None" /\ late)

\* validate_share_token: the expiry (late: now is past expires_at), then
\* the view limit (max_views is <<>> for None and <<n>> for the limit n).
ValidateShareToken(token_data, late) ==
    IF token_data.expires_at # "None" /\ late THEN FALSE
    ELSE IF token_data.max_views # <<>>
            /\ token_data.current_views >= token_data.max_views[1] THEN FALSE
    ELSE TRUE

\* What a StreamingResponse of a file makes the client receive: the file is
\* opened and read after the handler has returned.
Streamed(type, video_path, via) ==
    [type |-> type, video_path |-> video_path, via |-> via]

\* get_video: get_video_file, then the StreamingResponse; its
\* HTTPException is raised on.
GetVideo ==
    /\ client.kind = "viewer"
    /\ \A q \in Runs : ~HoldsLoop(q)
    /\ \E type \in {"original", "processed"} :
          LET found == GetVideoFile(metaFile, files, type = "processed")
          IN  client' =
                 IF found.status_code = 200
                 THEN [client EXCEPT
                          !.response = 200,
                          !.served = Streamed(type, found.video_path, "video")]
                 ELSE [client EXCEPT !.response = found.status_code]
    /\ UNCHANGED <<files, metaFile, writes, run, observed, calc>>

\* stream_shared_video: get_share_token (404 for an unknown token),
\* validate_share_token (403), get_video_file (any HTTPException becomes
\* 404), increment_share_views, then the StreamingResponse.  The handler
\* awaits nothing: no other coroutine runs before it returns.
StreamSharedVideo ==
    /\ client.kind = "viewer"
    /\ \A q \in Runs : ~HoldsLoop(q)
    /\ client.token.current_views < MaxRequests
    /\ \E type \in {"original", "processed", "other"}, known, late \in BOOLEAN :
          LET token_data == client.token
              found == GetVideoFile(metaFile, files, type = "processed")
          IN  client' =
                 IF ~known THEN [client EXCEPT !.response = 404]
                 ELSE IF ~ValidateShareToken(token_data, late)
                 THEN [client EXCEPT !.response = 403]
                 ELSE IF found.status_code # 200
                 THEN [client EXCEPT !.response = 404]
                 ELSE [client EXCEPT
                          !.token.current_views = @ + 1,
                          !.response = 200,
                          !.shared = @ + 1,
                          !.served = Streamed(type, found.video_path, "share")]
    /\ UNCHANGED <<files, metaFile, writes, run, observed, calc>>

\* Nothing was streamed to the client yet.
NotServed == [type |-> "none", video_path |-> InputPath, via |-> "none"]

\* One run, for an upload with at most one edit operation, and a client
\* that holds a share link of the video: create_share_token stores it with
\* no views, with or without an expiry, with a view limit (which
\* ShareCreateRequest requires to be positive) or without one.
ServeInit ==
    /\ files = (InputPath :> Original)
    /\ \E o \in OptionSets :
          /\ Len(o.edit_operations) <= 1
          /\ \A k \in 1..Len(o.edit_operations) :
                o.edit_operations[k].type = "speed"
          /\ metaFile = UploadRecord(o)
    /\ writes = <<>>
    /\ run = [r \in Runs |-> IF r = 1 THEN NewRun("dispatched") ELSE NewRun("idle")]
    /\ observed = "none"
    /\ calc = NoCalc
    /\ \E max_views \in {<<>>} \cup {<<n>> : n \in 1..(MaxRequests - 1)},
          expires_at \in {"None", "set"} :
          client = [kind |-> "viewer",
                    response |-> 0,
                    served |-> NotServed,
                    shared |-> 0,      \* history: the requests the link served
                    token |-> [max_views |-> max_views,
                               current_views |-> 0,
                               expires_at |-> expires_at]]

ServeNext ==
    \/ \E r \in Runs : Step(r)
    \/ GetVideo
    \/ StreamSharedVideo

ServeSpec == ServeInit /\ [][ServeNext]_vars

---------------------------------------------------------------------------
(* Vocabulary of the properties *)

\* The run is over: process_video returned or raised, nothing in flight.
Terminal(r) == run[r].pc \in {"returned", "raised"} /\ Idle(r)

\* video_processor is over: it returned or raised into __aexit__.
ExecutorLeft(r) == run[r].pc \in {"aexit", "aexit_progress", "returned", "raised"}

\* video_processor returned without raising.
ExecutorReturned(r) == ExecutorLeft(r) /\ run[r].exc = "none"

\* The records run r stored, in order.
WritesOf(r) == SelectSeq(writes, LAMBDA w : w.by = r)

IntermediatePaths ==
    {PipelinePath(i) : i \in 0..2} \cup {NlTempPath(i) : i \in 0..MaxOps}

\* The fixed priority of the three steps.
Priority(key) ==
    CASE key = "nl_edit" -> 1
      [] key = "silence_removal" -> 2
      [] key = "face_crop" -> 3

\* The steps the options ask for.
Requested(options) ==
    {k \in {"nl_edit"} : options.edit_operations # <<>>}
    \cup {k \in {"silence_removal"} : options.remove_silence}
    \cup {k \in {"face_crop"} : options.auto_crop_face}

---------------------------------------------------------------------------
(* The lifecycle *)

\* C1: the statuses a run stores start with processing, stored before the
\* pipeline body starts, never leave completed or error once stored, and the
\* record reads uploaded until the first of them.
C1_StatusLifecycle ==
    /\ writes = <<>> /\ Readable(metaFile) => metaFile.status = "uploaded"
    /\ \A r \in Runs :
        LET ws == WritesOf(r)
        IN  /\ \A k \in 1..Len(ws) :
                  ws[k].rec.status \in {"processing", "completed", "error"}
            /\ Len(ws) >= 1 => ws[1].rec.status = "processing"
            /\ \A k \in 1..(Len(ws) - 1) :
                  ws[k].rec.status \in {"completed", "error"}
                     => ws[k + 1].rec.status = ws[k].rec.status
            /\ At(r, "processor") =>
                  /\ Len(ws) = 1
                  /\ Readable(metaFile) /\ metaFile.status = "processing"

C1_Witness ==
    \E r \in Runs :
        /\ Terminal(r)
        /\ Len(WritesOf(r)) >= 3
        /\ WritesOf(r)[Len(WritesOf(r)) - 1].rec.status = "completed"

\* C2: once the pipeline body raised, the run never takes the success path
\* and never stores completed, and it ends raising to the dispatcher with
\* status error and processed false.
C2_FailureRecordedAndRaised ==
    \A r \in Runs :
        run[r].exc # "none" =>
            /\ run[r].pc \notin {"returned", "aexit_progress"}
            /\ Readable(metaFile) => metaFile.status # "completed"
            /\ Terminal(r) =>
                  /\ run[r].pc = "raised"
                  /\ Readable(metaFile)
                  /\ metaFile.status = "error"
                  /\ metaFile.processed = FALSE

C2_Witness ==
    \E r \in Runs :
        /\ Terminal(r)
        /\ run[r].exc = "RuntimeError"
        /\ run[r].started # <<>>

\* C3: a run whose pipeline body did not raise ends returned, with status
\* completed, processed true and progress 100.
C3_SuccessRecorded ==
    \A r \in Runs :
        Terminal(r) /\ run[r].exc = "none" =>
            /\ run[r].pc = "returned"
            /\ Readable(metaFile)
            /\ metaFile.status = "completed"
            /\ metaFile.processed = TRUE
            /\ metaFile.progress = Whole(100)

C3_Witness ==
    \E r \in Runs :
        Terminal(r) /\ run[r].exc = "none" /\ run[r].total_steps = 3

\* C4: every readable record with processed true has status completed and
\* progress 100.
C4_ProcessedImpliesCompleted100 ==
    Readable(metaFile) /\ metaFile.processed =>
        metaFile.status = "completed" /\ metaFile.progress = Whole(100)

\* C5: the progress values a run stores never decrease, and a run that
\* returned stored 100 last.
C5_ProgressMonotone ==
    \A r \in Runs :
        LET ws == WritesOf(r)
        IN  /\ \A k \in 1..(Len(ws) - 1) :
                  RLeq(ws[k].rec.progress, ws[k + 1].rec.progress)
            /\ Terminal(r) /\ run[r].pc = "returned" =>
                  ws[Len(ws)].rec.progress = Whole(100)

C5_Witness ==
    \E r \in Runs :
        /\ Terminal(r)
        /\ run[r].pc = "returned"
        /\ run[r].total_steps = 3
        /\ Len(Operations(r)) = MaxOps

---------------------------------------------------------------------------
(* The pipeline executor *)

C8_NoOptionsCopies ==
    \A r \in Runs :
        Readable(run[r].metadata)
        /\ StepList(run[r].metadata.processing_options) = <<>> =>
            /\ DOMAIN files \cap IntermediatePaths = {}
            /\ run[r].exc = "none"
            /\ Terminal(r) =>
                  /\ run[r].pc = "returned"
                  /\ Exists(files, OutputPath)
                  /\ files[OutputPath] = files[InputPath]
                  /\ files[InputPath] = Original
                  /\ metaFile.status = "completed"
                  /\ metaFile.progress = Whole(100)

C8_Witness ==
    \E r \in Runs :
        /\ Terminal(r)
        /\ Readable(run[r].metadata)
        /\ StepList(run[r].metadata.processing_options) = <<>>

\* C9: only requested steps start, in increasing priority, each after every
\* requested step of lower priority has started and finished; when the
\* executor returns without raising, every requested step has run.
C9_StepsInPriorityOrder ==
    \A r \in Runs :
        LET st == run[r].started
            req == IF Readable(run[r].metadata)
                   THEN Requested(run[r].metadata.processing_options) ELSE {}
        IN  /\ \A k \in 1..Len(st) : st[k].key \in req
            /\ \A k, l \in 1..Len(st) :
                  k < l => Priority(st[k].key) < Priority(st[l].key)
            /\ \A k \in 1..Len(st) : \A q \in req :
                  Priority(q) < Priority(st[k].key)
                     => \E j \in 1..(k - 1) : st[j].key = q
            /\ run[r].running \subseteq {Len(st) - 1}
            /\ ExecutorReturned(r) => {st[k].key : k \in 1..Len(st)} = req

C9_Witness ==
    \E r \in Runs : ExecutorReturned(r) /\ Len(run[r].started) = 3

\* C10: at most one step executes at a time and only the one started last;
\* the first step reads the source, every later step reads the path the
\* step before it wrote, which exists when it starts; only the last step is
\* given the final output path, which exists only once that step started;
\* when the executor returns, the final output holds the source with the
\* transforms of the steps applied in order (silence removal may copy).
C10_StepsChained ==
    \A r \in Runs :
        LET st == run[r].started
        IN  /\ Cardinality(run[r].running) <= 1
            /\ run[r].running \subseteq {Len(st) - 1}
            /\ st # <<>> => st[1].input = InputPath
            /\ \A k \in 1..(Len(st) - 1) : st[k + 1].input = st[k].output
            /\ \A k \in 1..Len(st) :
                  st[k].output = OutputPath <=> k = run[r].total_steps
            /\ run[r].running # {} => Exists(files, st[Len(st)].input)
            /\ run[r].total_steps > 0 /\ Exists(files, OutputPath) =>
                  Len(st) = run[r].total_steps
            /\ run[r].total_steps > 0 /\ ExecutorReturned(r) =>
                  /\ Exists(files, OutputPath)
                  /\ SelectSeq(files[OutputPath], LAMBDA t : t # "silence_removal")
                        = [k \in 1..Len(Operations(r)) |-> Operations(r)[k].type]
                          \o (IF run[r].metadata.processing_options.auto_crop_face
                              THEN <<"face_crop">> ELSE <<>>)

C10_Witness ==
    \E r \in Runs : Len(run[r].started) = 3 /\ run[r].running = {2}

\* C11: a step is started at most once in a run, and once anything raised
\* in the run no further step is started, no codec invocation writes a file
\* and the exception is never cleared.
C11_FailureFatalNoRetry ==
    [][\A r \in Runs :
          /\ \A k, l \in 1..Len(run'[r].started) :
                k # l => run'[r].started[k].key # run'[r].started[l].key
          /\ run[r].exc # "none" =>
                /\ run'[r].started = run[r].started
                /\ run'[r].exc = run[r].exc
                /\ run'[r].running \subseteq run[r].running
                /\ DOMAIN files' \subseteq DOMAIN files]_vars

C11_Witness ==
    \E r \in Runs :
        /\ Terminal(r)
        /\ run[r].exc = "RuntimeError"
        /\ run[r].total_steps = 3
        /\ Len(run[r].started) = 1

---------------------------------------------------------------------------
(* The record and its readers *)

\* C12: a poll of the record never finds a file it cannot parse.
C12_PollNeverTorn == observed # "HTTPException"

\* C13: every dispatched run ends, returned or raised, and from then on the
\* record reads completed or error: it does not stay at processing.
C13_RunTerminates ==
    <>[](\A r \in Runs :
            run[r].pc # "idle" =>
                /\ Terminal(r)
                /\ Readable(metaFile)
                /\ metaFile.status \in {"completed", "error"})

C13_Witness ==
    \E r \in Runs :
        /\ Terminal(r)
        /\ run[r].total_steps = 2
        /\ Readable(metaFile)
        /\ metaFile.status = "error"
        /\ \E k \in 1..Len(writes) : writes[k].rec.status = "processing"

\* The record the writer of writes[k] had read.
ReadBy(k) ==
    IF writes[k].seen = 0 THEN UploadRecord(writes[k].rec.processing_options)
    ELSE writes[writes[k].seen].rec

\* Records were stored between the read and the dump of writes[k].
Stale(k) == writes[k].seen < k - 1

\* C14: with two overlapping runs every stored record is the update of the
\* record its writer read, not of the record it replaces: the fields the
\* update does not set are those of the record read, so whatever was stored
\* between the read and the dump is lost.
C14_StoredFromRecordRead ==
    \A k \in 1..Len(writes) :
        LET w == writes[k]
            base == ReadBy(k)
        IN  /\ w.seen <= k - 1
            /\ w.kind = "status" =>
                  /\ w.rec.progress = base.progress
                  /\ w.rec.processing_details = base.processing_details
            /\ w.kind = "progress" =>
                  /\ w.rec.status = base.status
                  /\ w.rec.processed = base.processed
                  /\ w.rec.processing_completed = base.processing_completed

\* A write of one run, computed from a stale read, replaces the completed
\* record of the other run: the status reverts to processing and the
\* progress regresses.
C14_Witness ==
    \E k \in 2..Len(writes) :
        /\ Stale(k)
        /\ writes[k].by # writes[k - 1].by
        /\ writes[k - 1].rec.status = "completed"
        /\ writes[k - 1].rec.progress = Whole(100)
        /\ writes[k].rec.status = "processing"
        /\ ~RLeq(writes[k - 1].rec.progress, writes[k].rec.progress)
        /\ metaFile = writes[k].rec

---------------------------------------------------------------------------
(* The edit operations *)

\* C15: once apply_operations has met an operation of a kind it does not
\* know, the run holds an exception: the operation is not skipped and
\* apply_operations does not return normally.
C15_UnknownOperationFatal ==
    \A r \in Runs :
        (\E k \in 1..Len(run[r].op_calls) :
            run[r].op_calls[k].type \notin VALID_OPERATION_TYPES)
        => run[r].exc # "none"

\* apply_operations is over and did not raise.
OperationsReturned(r) ==
    /\ run[r].started # <<>>
    /\ run[r].started[1].key = "nl_edit"
    /\ run[r].exc = "none"
    /\ run[r].pc \notin {"apply_operations", "op_head", "op_exec"}

\* C16: the operations invoked are the listed ones, in list order and once
\* each; the first reads the step's input and every later one the path the
\* one before it wrote; every operation but the last writes an intermediate
\* path of its own, which does not exist before it runs, and only the last
\* writes the step's output path; a call that returns has invoked them all
\* and left the edits, in order, in the step's output.
C16_OperationsChained ==
    \A r \in Runs :
        LET h == run[r].op_calls
            ops == IF Readable(run[r].metadata) THEN Operations(r) ELSE <<>>
            n == Len(ops)
        IN  /\ Len(h) <= n
            /\ \A k \in 1..Len(h) : h[k].type = ops[k].type
            /\ h # <<>> => h[1].input = run[r].started[1].input
            /\ \A k \in 1..(Len(h) - 1) : h[k + 1].input = h[k].output
            /\ \A k \in 1..Len(h) :
                  /\ h[k].output = run[r].started[1].output <=> k = n
                  /\ k < n => h[k].output = NlTempPath(k - 1)
                  /\ h[k].output \notin {InputPath, h[k].input}
            /\ \A k, l \in 1..Len(h) : k # l => h[k].output # h[l].output
            /\ At(r, "op_exec") /\ ~IsLast(run[r].op_i, n) =>
                  ~Exists(files, run[r].op_output)
            /\ OperationsReturned(r) => Len(h) = n
            /\ OperationsReturned(r) /\ run[r].pc = "step_end" /\ Idle(r) =>
                  files[run[r].started[1].output] = [k \in 1..n |-> ops[k].type]

C16_Witness ==
    \E r \in Runs :
        /\ OperationsReturned(r)
        /\ At(r, "step_end")
        /\ Len(run[r].op_calls) >= 2
        /\ run[r].op_calls[1].type # run[r].op_calls[2].type

---------------------------------------------------------------------------
(* Silence removal *)

\* The seconds [t, t + 1) of the timeline the intervals cover.
Cells(intervals) ==
    UNION {intervals[k][1]..(intervals[k][2] - 1) : k \in 1..Len(intervals)}

\* The seconds of [0, d].
Timeline(d) == 0..(d - 1)

\* Every interval is (start, end) with 0 <= start < end.
ValidIntervals(intervals) ==
    \A k \in 1..Len(intervals) :
        0 <= intervals[k][1] /\ intervals[k][1] < intervals[k][2]

\* Sorted and non-overlapping (two intervals may touch).
SortedDisjoint(intervals) ==
    \A k \in 1..(Len(intervals) - 1) : intervals[k][2] <= intervals[k + 1][1]

\* Sorted, with audible time between any two of them.
Separated(intervals) ==
    \A k \in 1..(Len(intervals) - 1) : intervals[k][2] < intervals[k + 1][1]

Inside(intervals, d) ==
    \A k \in 1..Len(intervals) : intervals[k][2] <= d

\* The gaps the intervals leave within [0, d]: the maximal stretches of
\* the timeline none of them covers, in increasing order.
Gaps(intervals, d) ==
    LET free == Timeline(d) \ Cells(intervals)
        stretches == {g \in (0..d) \X (0..d) :
                        /\ g[1] < g[2]
                        /\ g[1]..(g[2] - 1) \subseteq free
                        /\ (g[1] - 1) \notin free
                        /\ g[2] \notin free}
        starts == Ascending({g[1] : g \in stretches})
    IN  [k \in 1..Len(starts) |-> CHOOSE g \in stretches : g[1] = starts[k]]

\* The complement has been computed.
Complemented == calc.phase \in {"complement", "filter"}

\* C17: for sorted, non-overlapping silent intervals inside [0, d] the gaps
\* of the audible intervals cover exactly the silent time, and are the
\* silent list itself when no two silent intervals touch; the complement of
\* the empty list is the single interval (0, d).
C17_ComplementInverts ==
    Complemented
    /\ ValidIntervals(calc.silent)
    /\ SortedDisjoint(calc.silent)
    /\ Inside(calc.silent, calc.duration) =>
        /\ Cells(Gaps(calc.non_silent, calc.duration)) = Cells(calc.silent)
        /\ Separated(calc.silent) =>
              Gaps(calc.non_silent, calc.duration) = calc.silent
        /\ calc.silent = <<>> => calc.non_silent = << <<0, calc.duration>> >>

C17_Witness ==
    /\ Complemented
    /\ Len(calc.silent) = 2
    /\ Separated(calc.silent)
    /\ Inside(calc.silent, calc.duration)
    /\ calc.silent[1][1] > 0
    /\ calc.silent[2][2] < calc.duration
    /\ Len(calc.non_silent) = 3

\* C18: for any list of silent intervals, sorted or not, overlapping or
\* not, the audible intervals are in increasing start order, pairwise
\* disjoint, disjoint from every silent interval and, with the silent
\* intervals, cover [0, d]; the filter graph takes them in that order, each
\* part starting where its interval starts and lasting as long.
C18_AudibleOrderedDisjointCovering ==
    Complemented /\ ValidIntervals(calc.silent) =>
        LET ns == calc.non_silent
        IN  /\ \A k \in 1..(Len(ns) - 1) : ns[k][1] < ns[k + 1][1]
            /\ \A k, l \in 1..Len(ns) : k < l => ns[k][2] <= ns[l][1]
            /\ \A k \in 1..Len(ns) : ns[k][1] <= ns[k][2]
            /\ Cells(ns) \cap Cells(calc.silent) = {}
            /\ Timeline(calc.duration) \subseteq Cells(ns) \cup Cells(calc.silent)
            /\ calc.phase = "filter" =>
                  /\ Len(calc.parts) = Len(ns)
                  /\ \A i \in 1..Len(ns) :
                        /\ calc.parts[i].label = i - 1
                        /\ calc.parts[i].start = ns[i][1]
                        /\ calc.parts[i].start + calc.parts[i].duration = ns[i][2]
                  /\ \A i \in 1..(Len(ns) - 1) :
                        calc.parts[i].start < calc.parts[i + 1].start

C18_Witness ==
    /\ calc.phase = "filter"
    /\ calc.source = "list"
    /\ Len(calc.silent) = 2
    /\ calc.silent[1][1] > calc.silent[2][1]
    /\ calc.silent[1][1] < calc.silent[2][2]
    /\ Len(calc.parts) = 2

\* detect_silent_segments has returned the intervals of a stream.
Detected == calc.source = "stream" /\ calc.phase # "stream"

\* C19: the intervals returned are those of the stream's start markers, in
\* order: each start with the end marker that follows it, and a last start
\* that no end marker follows with the probed duration.
C19_StartsPairedOrClosed ==
    Detected =>
        LET st == calc.stream
            segs == calc.silent
        IN  /\ Len(segs) = (Len(st) + 1) \div 2
            /\ \A j \in 1..Len(segs) :
                  segs[j] = <<st[2 * j - 1].t,
                              IF 2 * j <= Len(st) THEN st[2 * j].t
                              ELSE calc.duration>>

\* C20: every interval detect_silent_segments returns has end > start.
C20_PositiveLength ==
    Detected =>
        \A k \in 1..Len(calc.silent) : calc.silent[k][2] > calc.silent[k][1]

---------------------------------------------------------------------------
(* remove_silence in the pipeline *)

\* The step of run r that is executing, or that has just returned.
CurrentStep(r) == run[r].steps[run[r].i + 1]

\* Run r is inside remove_silence, or remove_silence has just returned.
InSilenceStep(r) ==
    /\ run[r].pc \in {"remove_silence", "detect", "after_detect", "concat", "step_end"}
    /\ CurrentStep(r).key = "silence_removal"

\* remove_silence has returned to video_processor without raising.
SilenceReturned(r) ==
    /\ At(r, "step_end")
    /\ CurrentStep(r).key = "silence_removal"

\* The sub-progress values run r stored under the name of a step, in order.
SubProgressOf(r, name) ==
    LET ws == SelectSeq(writes, LAMBDA w :
                  /\ w.by = r
                  /\ w.kind = "progress"
                  /\ w.rec.processing_details.current_step = name)
    IN  [k \in 1..Len(ws) |-> ws[k].rec.processing_details.current_step_progress]

\* C21: what was detected never makes remove_silence fail.  The codec tool
\* concatenates only when silence was found and something audible is left;
\* when no silence is found, and when nothing audible is left, a
\* remove_silence that returns has made the output a copy of its input and
\* has reported sub-progress 100 last, and no exception is pending.
C21_DetectionNeverFails ==
    \A r \in Runs :
        LET silent == run[r].silent_segments
            non_silent == ComputeNonSilent(silent, TotalDuration)
        IN  /\ (InSilenceStep(r) /\ run[r].pc = "concat")
                  => silent # <<>> /\ non_silent # <<>>
            /\ (SilenceReturned(r) /\ (silent = <<>> \/ non_silent = <<>>))
                  => /\ Exists(files, run[r].step_output)
                     /\ files[run[r].step_output] = files[run[r].current_input]
                     /\ run[r].exc = "none"
                     /\ LET subs == SubProgressOf(r, "Silence Removal")
                        IN  subs # <<>> /\ subs[Len(subs)] = Whole(100)

\* The whole input is silent, and remove_silence has returned.
C21_Witness ==
    \E r \in Runs :
        /\ SilenceReturned(r)
        /\ run[r].silent_segments = << <<0, TotalDuration>> >>
        /\ files[run[r].step_output] = files[run[r].current_input]

\* C30: a remove_silence that returns has reported 10, 30, 100 when no
\* silence was detected, and 10, 30, 50, 100 otherwise, the case in which
\* nothing audible is left included.
C30_SilenceProgressSequence ==
    \A r \in Runs :
        SilenceReturned(r) =>
            SubProgressOf(r, "Silence Removal") =
                IF run[r].silent_segments = <<>>
                THEN <<Whole(10), Whole(30), Whole(100)>>
                ELSE <<Whole(10), Whole(30), Whole(50), Whole(100)>>

---------------------------------------------------------------------------
(* The progress written while a step executes *)

\* Run r stores a record in this step of the model.
Stores(r) ==
    /\ run[r].wr.phase = "dump"
    /\ Len(writes') = Len(writes) + 1
    /\ writes'[Len(writes')].by = r

---------------------------------------------------------------------------
(* The audio-tempo stages *)

RECURSIVE Product(_)
Product(stages) ==
    IF stages = <<>> THEN Whole(1)
    ELSE RMul(stages[1], Product(Tail(stages)))

\* _change_speed has built a chain of stages for the factor: each stage
\* lies in [0.5, 2.0] and their product is the factor.
Decomposed ==
    /\ calc.error = "none"
    /\ calc.stages # <<>>
    /\ \A k \in 1..Len(calc.stages) :
          RLeq(Frac(1, 2), calc.stages[k]) /\ RLeq(calc.stages[k], Whole(2))
    /\ Product(calc.stages) = calc.factor

\* C22 as stated: for every speed factor f >= 0, _change_speed builds a
\* chain of stages in [0.5, 2.0] whose product is f.
C22_NonNegativeDecomposed ==
    calc.phase = "speed" => Decomposed

\* C22: for every speed factor f > 0, _change_speed builds a chain of
\* stages in [0.5, 2.0] whose product is f.
C22_PositiveDecomposed ==
    (calc.phase = "speed" /\ RLess(Whole(0), calc.factor)) => Decomposed

\* A factor below 0.5 that takes three 0.5 stages and a residual one.
C22_Witness ==
    /\ calc.phase = "speed"
    /\ calc.factor = Frac(1, 9)
    /\ calc.stages = <<Frac(1, 2), Frac(1, 2), Frac(1, 2), Frac(8, 9)>>

---------------------------------------------------------------------------
(* The crop rectangle *)

\* _compute_crop_region has returned a rectangle.
RegionComputed == calc.crop # NoCrop

\* C23: for a source of positive width and height and any list of face
\* samples, the empty one included, the rectangle has an even width and an
\* even height and lies within the source.
C23_RectangleEvenAndInside ==
    (RegionComputed /\ calc.video_width > 0 /\ calc.video_height > 0) =>
        LET c == calc.crop
        IN  /\ c.crop_w % 2 = 0
            /\ c.crop_h % 2 = 0
            /\ c.crop_w <= calc.video_width
            /\ c.crop_h <= calc.video_height
            /\ c.crop_x >= 0
            /\ c.crop_y >= 0
            /\ c.crop_x + c.crop_w <= calc.video_width
            /\ c.crop_y + c.crop_h <= calc.video_height

\* A source narrower than 9:16 with two samples near its lower edge: the
\* height is cut and the rectangle is held at the lower edge.
C23_Witness ==
    /\ RegionComputed
    /\ Len(calc.face_positions) = 2
    /\ calc.crop.crop_w > 0
    /\ calc.crop.crop_h < calc.video_height
    /\ calc.crop.crop_y > 0
    /\ calc.crop.crop_y = calc.video_height - calc.crop.crop_h

\* A 1920x1080 source in which no face was sampled.
NoFaceFullHD ==
    /\ RegionComputed
    /\ calc.video_width = 1920
    /\ calc.video_height = 1080
    /\ calc.face_positions = <<>>

\* C24: for a 1920x1080 source with no face samples the rectangle has
\* width 606, height 1080, x = 657 and y = 0.
C24_FullHDCentreCrop ==
    NoFaceFullHD =>
        calc.crop = [crop_x |-> 657, crop_y |-> 0, crop_w |-> 606, crop_h |-> 1080]

C24_Witness ==
    /\ NoFaceFullHD
    /\ calc.crop.crop_w = 606
    /\ calc.crop.crop_x = 657

\* C25: when the frame count of an input that opens is not positive, face
\* sampling returns the empty list and auto_crop_face goes on to the
\* centre crop without raising.
C25_NoFramesCentreCrop ==
    calc.total_frames <= 0 =>
        /\ calc.face_positions = <<>>
        /\ calc.message # "Cannot determine frame count"
        /\ calc.phase # "sample"

\* C26: when the width or the height of the source is not positive,
\* _compute_crop_region raises instead of returning a rectangle, and the
\* codec tool is not run with one.
C26_InvalidDimensionsRejected ==
    (calc.video_width <= 0 \/ calc.video_height <= 0) =>
        /\ ~RegionComputed
        /\ ~calc.invoked

---------------------------------------------------------------------------
(* The edit operations an upload stores *)

\* C28: the edit-operation list an upload stores for the pipeline is not
\* empty, and each of its operations has a whitelisted kind, a required
\* parameter that is a number > 0, and no unrecognized extra field.
C28_StoredOperationsSchemaValid ==
    calc.phase = "stored" =>
        /\ calc.edit_operations # <<>>
        /\ \A k \in 1..Len(calc.edit_operations) :
              LET op == calc.edit_operations[k]
              IN  /\ op.type \in VALID_OPERATION_TYPES
                  /\ op.param.json = "number"
                  /\ op.param.value > 0
                  /\ ~op.extra

---------------------------------------------------------------------------
(* The names of the intermediate files *)

\* The intermediate files run r has named: (step, level, path)
Intermediates(r) ==
    {calc.of[r].named[k] : k \in {j \in 1..Len(calc.of[r].named) :
                                     calc.of[r].named[j].intermediate}}

\* C27: two intermediate files named for different (run, step) pairs, or
\* at different levels or indices of one step, have different paths, and
\* no intermediate file of a run has the path of the run's source or of its
\* final output, which differ from each other.
C27_IntermediatePathsDistinct ==
    /\ \A r1, r2 \in Runs :
          \A e1 \in Intermediates(r1), e2 \in Intermediates(r2) :
              e1.path = e2.path => r1 = r2 /\ e1 = e2
    /\ \A r \in Runs :
          LET c == calc.of[r]
          IN  /\ PathOf(c.video_id, InputPath) # PathOf(c.video_id, OutputPath)
              /\ \A e \in Intermediates(r) :
                    /\ e.path # PathOf(c.video_id, InputPath)
                    /\ e.path # PathOf(c.video_id, OutputPath)

\* Both runs have three steps and two edit operations, and have named
\* every output.
C27_Witness ==
    \A r \in Runs :
        /\ calc.of[r].i = 3
        /\ Len(calc.of[r].options.edit_operations) = 2
        /\ Cardinality(Intermediates(r)) = 3

---------------------------------------------------------------------------
(* The audible intervals and the duration *)

\* C31: for any list of silent intervals, those that start or end beyond
\* the duration included, every audible interval of the complement
\* satisfies 0 <= start < end <= duration.
C31_AudibleWithinDuration ==
    (Complemented /\ ValidIntervals(calc.silent)) =>
        \A k \in 1..Len(calc.non_silent) :
            /\ 0 <= calc.non_silent[k][1]
            /\ calc.non_silent[k][1] < calc.non_silent[k][2]
            /\ calc.non_silent[k][2] <= calc.duration

---------------------------------------------------------------------------
(* The step-local progress of the components *)

StepNames == {"Natural Language Editing", "Silence Removal", "Face Auto-Crop"}

NonDecreasing(subs) ==
    \A k \in 1..(Len(subs) - 1) : RLeq(subs[k], subs[k + 1])

WithinPercent(x) == RLeq(Whole(0), x) /\ RLeq(x, Whole(100))

\* A step of run r raised: the run is in video_processor's finally or
\* beyond it with the exception, and the step that raised is the current one.
StepRaised(r) ==
    /\ run[r].exc # "none"
    /\ run[r].started # <<>>
    /\ ExecutorLeft(r) \/ run[r].pc = "finally"

\* C32: the sub-progress values a component reports are within [0, 100] and
\* never decrease; a component that returned reported 100 last, and one
\* that raised never reported 100.
C32_ComponentProgress ==
    \A r \in Runs :
        /\ \A name \in StepNames :
              LET subs == SubProgressOf(r, name)
              IN  /\ NonDecreasing(subs)
                  /\ \A k \in 1..Len(subs) : WithinPercent(subs[k])
                  /\ (run[r].wr.kind = "progress" /\ run[r].wr.current_step = name) =>
                        /\ WithinPercent(run[r].wr.current_step_progress)
                        /\ subs # <<>> =>
                              RLeq(subs[Len(subs)], run[r].wr.current_step_progress)
        /\ (At(r, "step_end") /\ run[r].exc = "none") =>
              LET subs == SubProgressOf(r, CurrentStep(r).name)
              IN  subs # <<>> /\ subs[Len(subs)] = Whole(100)
        /\ StepRaised(r) =>
              LET subs == SubProgressOf(r, CurrentStep(r).name)
              IN  \A k \in 1..Len(subs) : subs[k] # Whole(100)

\* The first step returned after reporting 100, and the second raised after
\* reporting less.
C32_Witness ==
    \E r \in Runs :
        /\ StepRaised(r)
        /\ run[r].i = 1
        /\ LET first == SubProgressOf(r, run[r].steps[1].name)
               second == SubProgressOf(r, run[r].steps[2].name)
           IN  /\ first # <<>> /\ first[Len(first)] = Whole(100)
               /\ second # <<>> /\ second[Len(second)] = Whole(60)

---------------------------------------------------------------------------
(* The final output *)

---------------------------------------------------------------------------
(* What a write leaves alone *)

\* The record write k was computed from: the one stored last when its
\* writer read, or the uploaded record its run read first.
BaseOf(k) ==
    IF writes[k].seen = 0 THEN run[writes[k].by].metadata
    ELSE writes[writes[k].seen].rec

\* The progress writes of run r, in order.
ProgressWritesOf(r) ==
    SelectSeq(writes, LAMBDA w : w.by = r /\ w.kind = "progress")

\* C37: a status write leaves progress, processing_details and
\* processing_options as they were, a progress write leaves status,
\* processed and processing_options as they were, and after a failed run the
\* record has the progress reported last before the failure.
C37_WritesKeepOtherFields ==
    /\ \A k \in 1..Len(writes) :
          LET w == writes[k].rec
              b == BaseOf(k)
          IN  /\ w.processing_options = b.processing_options
              /\ writes[k].kind = "status" =>
                    /\ w.progress = b.progress
                    /\ w.processing_details = b.processing_details
              /\ writes[k].kind = "progress" =>
                    /\ w.status = b.status
                    /\ w.processed = b.processed
    /\ \A r \in Runs :
          (Terminal(r) /\ run[r].exc # "none" /\ Readable(metaFile)) =>
              LET pw == ProgressWritesOf(r)
              IN  metaFile.progress =
                     IF pw = <<>> THEN run[r].metadata.progress
                     ELSE pw[Len(pw)].rec.progress

\* A run failed in its second step, after reporting progress for it.
C37_Witness ==
    \E r \in Runs :
        /\ Terminal(r)
        /\ run[r].exc # "none"
        /\ Readable(metaFile)
        /\ metaFile.status = "error"
        /\ Len(run[r].steps) >= 2
        /\ metaFile.processing_details.current_step = run[r].steps[2].name
        /\ RLess(Whole(50), metaFile.progress)
        /\ RLess(metaFile.progress, Whole(100))

---------------------------------------------------------------------------
(* The uploaded source *)

\* C38: no run writes, truncates or deletes the uploaded source: it exists
\* with its uploaded bytes in every state, and every other file is an
\* intermediate of the run or the final output.
C38_SourceUntouched ==
    /\ Exists(files, InputPath)
    /\ files[InputPath] = Original
    /\ DOMAIN files \subseteq ({InputPath, OutputPath} \cup IntermediatePaths)

\* A run of two steps with two operations is over: the output was produced,
\* the intermediates were made and removed again.
C38_Witness ==
    \E r \in Runs :
        /\ Terminal(r)
        /\ Len(run[r].started) >= 2
        /\ Len(run[r].op_calls) >= 2
        /\ Exists(files, OutputPath)
        /\ files[OutputPath] # Original
        /\ DOMAIN files = {InputPath, OutputPath}

---------------------------------------------------------------------------
(* The area of the rectangle *)

---------------------------------------------------------------------------
(* One update of the record at a time *)

\* The runs with an update of the record in flight.
Updating == {r \in Runs : run[r].wr.phase # "none"}

\* C36: with one run for the video at most one update of the record is in
\* flight, every update is computed from the record the update before it
\* stored, and so each stored record still carries what the update before
\* it wrote: no progress write and no status write of the run is lost.
C36_NoWriteLost ==
    /\ Cardinality(Updating) <= 1
    /\ \A r \in Updating :
          run[r].wr.phase \in {"open", "dump"} => run[r].wr.seen = Len(writes)
    /\ \A k \in 1..Len(writes) : writes[k].seen = k - 1
    /\ \A k \in 2..Len(writes) :
          LET w == writes[k].rec
              p == writes[k - 1].rec
          IN  /\ writes[k].kind = "status" =>
                    /\ w.progress = p.progress
                    /\ w.processing_details = p.processing_details
              /\ writes[k].kind = "progress" =>
                    /\ w.status = p.status
                    /\ w.processed = p.processed

\* A run has finished: the status written on entry, the progress written by
\* the worker threads, the status written on exit and the closing progress
\* are all stored, one after the other.
C36_Witness ==
    \E r \in Runs :
        /\ Terminal(r)
        /\ run[r].exc = "none"
        /\ Len(writes) >= 5
        /\ writes[1].kind = "status"
        /\ writes[2].kind = "progress"
        /\ writes[Len(writes) - 1].kind = "status"
        /\ writes[Len(writes)].kind = "progress"
        /\ writes[Len(writes)].rec.status = "completed"

---------------------------------------------------------------------------
(* The event stream *)

---------------------------------------------------------------------------
(* What a client is served *)

\* C34: the processed video is streamed, by the video endpoint or through a
\* share link, only for a record whose processed flag is true: the executor
\* has returned, and the file at the output path is the finished output,
\* neither one a step is still to write nor one a failed run left.
C34_ProcessedServedOnlyWhenProcessed ==
    (client.kind = "viewer" /\ client.served.type = "processed") =>
        /\ client.served.video_path = OutputPath
        /\ Readable(metaFile) => metaFile.processed
        /\ \E r \in Runs : ExecutorReturned(r)
        /\ Exists(files, OutputPath)
        /\ files[OutputPath] # Partial

\* The output of a run of two steps was streamed through the share link.
C34_Witness ==
    /\ client.kind = "viewer"
    /\ client.served.type = "processed"
    /\ client.served.via = "share"
    /\ client.response = 200
    /\ \E r \in Runs : Len(run[r].started) >= 2

\* C39: the views of a share link with a limit never exceed the limit, so
\* no more requests than the limit are served through it, and the counter
\* moves only by one, for a request that passed the validation, found the
\* file and is answered with the stream.
C39_ViewsWithinLimit ==
    [][client.kind = "viewer" =>
          /\ client.token.max_views # <<>> =>
                /\ client'.token.current_views <= client.token.max_views[1]
                /\ client'.shared <= client.token.max_views[1]
          /\ client'.shared = client'.token.current_views
          /\ client'.token.current_views # client.token.current_views =>
                /\ client'.token.current_views = client.token.current_views + 1
                /\ \E late \in BOOLEAN : ValidateShareToken(client.token, late)
                /\ client'.response = 200
                /\ client'.served.via = "share"
                /\ Exists(files, client'.served.video_path)]_vars

\* A link limited to two views has served two requests and refused the
\* next one.
C39_Witness ==
    /\ client.kind = "viewer"
    /\ client.token.max_views = <<2>>
    /\ client.token.expires_at = "None"
    /\ client.token.current_views = 2
    /\ client.shared = 2
    /\ client.response = 403

====
